---- MODULE Spec2Model ----
(***************************************************************************)
(* Verification model of the metagrouper tag-tree engine.                  *)
(*                                                                         *)
(*   - TreeBuilder.buildFromTags (src/src/tree/tree-builder.ts)            *)
(*   - the TreeNode factories   (src/src/types/tree-node.ts)               *)
(*   - SearchQueryBuilder       (src/src/utils/search-query-builder.ts)    *)
(*   - the VaultIndexer the builder reads, modelled from the contract of   *)
(*     the reverse index (sections 3 and 4.1 of spec.md)                   *)
(*                                                                         *)
(* A JavaScript string is modelled as a sequence of one-character strings, *)
(* so that split, join, startsWith, length and localeCompare are computed  *)
(* rather than assumed.                                                    *)
(***************************************************************************)
EXTENDS Integers, Sequences, FiniteSets, TLC

(***************************************************************************)
(* Bounds of the model                                                     *)
(***************************************************************************)
\* largest number of tags one document carries
MaxTagsPerFile == 3

(***************************************************************************)
(* The universe of documents and tags                                      *)
(***************************************************************************)
Files == {"D1", "D2"}

\* TFile.basename
Basename(f) == IF f = "D1" THEN <<"n", "1", "0">> ELSE <<"N", "2">>

\* TFile.path
Path(f) == Basename(f) \o <<".", "m", "d">>

TagA == <<"a">>
TagAB == <<"a", "b">>
TagA_B == <<"a", "/", "b">>
TagA_B_C == <<"a", "/", "b", "/", "c">>
TagProj == <<"p", "r", "o", "j">>
TagProjWeb == TagProj \o <<"/", "w", "e", "b">>
TagProjApi == TagProj \o <<"/", "a", "p", "i">>
TagNone == <<"z">>

\* the tags documents can carry, in the order getFileTags lists them
TagList == <<TagA, TagAB, TagA_B, TagA_B_C, TagProjWeb, TagProjApi>>

Tags == {TagList[i] : i \in 1..Len(TagList)}

\* tags whose first segment is the key under which buildFromTags registers
\* its root
TagRoot == <<"r", "o", "o", "t">>
TagRootX == TagRoot \o <<"/", "x">>

\* every tag of the model, in the order getFileTags lists them
AllTagList == TagList \o <<TagRoot, TagRootX>>

\* the rootTag argument of buildFromTags; the empty string stands for an
\* omitted (undefined) argument, both are falsy in "rootTag ? ... : ..."
NoRootTag == <<>>
RootTagArgs == {NoRootTag, TagA, TagA_B, TagProj, TagNone}

TagSets == {ts \in SUBSET Tags : Cardinality(ts) <= MaxTagsPerFile}

(***************************************************************************)
(* String primitives                                                       *)
(***************************************************************************)
\* String.prototype.startsWith
StartsWith(s, p) == Len(p) <= Len(s) /\ SubSeq(s, 1, Len(p)) = p

RECURSIVE SplitFrom(_, _, _)
SplitFrom(s, i, cur) ==
  IF i > Len(s) THEN <<cur>>
  ELSE IF s[i] = "/" THEN <<cur>> \o SplitFrom(s, i + 1, <<>>)
  ELSE SplitFrom(s, i + 1, Append(cur, s[i]))

\* String.prototype.split("/")
Split(s) == SplitFrom(s, 1, <<>>)

RECURSIVE Join(_, _)
\* Array.prototype.join(sep)
Join(segs, sep) ==
  IF Len(segs) = 0 THEN <<>>
  ELSE IF Len(segs) = 1 THEN segs[1]
  ELSE segs[1] \o sep \o Join(Tail(segs), sep)

\* Array.prototype.slice(0, -1)
SliceButLast(segs) == SubSeq(segs, 1, Len(segs) - 1)

RECURSIVE Perms(_)
\* every order in which the elements of a finite set can be enumerated
Perms(S) ==
  IF S = {} THEN {<<>>}
  ELSE UNION {{<<x>> \o p : p \in Perms(S \ {x})} : x \in S}

RECURSIVE FilterSeq(_, _)
\* the elements of seq that lie in S, in the order of seq
FilterSeq(seq, S) ==
  IF seq = <<>> THEN <<>>
  ELSE IF Head(seq) \in S THEN <<Head(seq)>> \o FilterSeq(Tail(seq), S)
  ELSE FilterSeq(Tail(seq), S)

Range(seq) == {seq[i] : i \in 1..Len(seq)}

Reverse(seq) == [i \in 1..Len(seq) |-> seq[Len(seq) + 1 - i]]

(***************************************************************************)
(* String.prototype.localeCompare(other, undefined,                        *)
(*                                {numeric: true, sensitivity: "base"})    *)
(***************************************************************************)
Digits == <<"0", "1", "2", "3", "4", "5", "6", "7", "8", "9">>

Lower == <<"a", "b", "c", "d", "e", "f", "g", "h", "i", "j", "k", "l", "m",
           "n", "o", "p", "q", "r", "s", "t", "u", "v", "w", "x", "y", "z">>

Upper == <<"A", "B", "C", "D", "E", "F", "G", "H", "I", "J", "K", "L", "M",
           "N", "O", "P", "Q", "R", "S", "T", "U", "V", "W", "X", "Y", "Z">>

\* the collation order: punctuation, then digits, then letters
Collation == <<" ", "_", "-", ",", ".", ":", "/", "#", "[", "]">> \o Digits \o Lower

IndexOf(seq, c) == CHOOSE i \in 1..Len(seq) : seq[i] = c

IsDigit(c) == c \in Range(Digits)

\* sensitivity "base": letters that differ only in case compare equal
BaseChar(c) == IF c \in Range(Upper) THEN Lower[IndexOf(Upper, c)] ELSE c

CharRank(c) == IndexOf(Collation, BaseChar(c))

RECURSIVE DigitRunLen(_)
\* length of the run of digits a string starts with
DigitRunLen(s) ==
  IF s = <<>> \/ ~IsDigit(Head(s)) THEN 0 ELSE 1 + DigitRunLen(Tail(s))

RECURSIVE DigitsValue(_)
\* numeric value of a string of digits
DigitsValue(s) ==
  IF s = <<>> THEN 0
  ELSE 10 * DigitsValue(SubSeq(s, 1, Len(s) - 1)) + (IndexOf(Digits, s[Len(s)]) - 1)

Sign(n) == IF n < 0 THEN -1 ELSE IF n > 0 THEN 1 ELSE 0

RECURSIVE localeCompare(_, _)
localeCompare(s, t) ==
  IF s = <<>> /\ t = <<>> THEN 0
  ELSE IF s = <<>> THEN -1
  ELSE IF t = <<>> THEN 1
  ELSE IF IsDigit(Head(s)) /\ IsDigit(Head(t))
    THEN LET ls == DigitRunLen(s)
             lt == DigitRunLen(t)
             vs == DigitsValue(SubSeq(s, 1, ls))
             vt == DigitsValue(SubSeq(t, 1, lt))
         IN IF vs # vt THEN Sign(vs - vt)
            ELSE localeCompare(SubSeq(s, ls + 1, Len(s)), SubSeq(t, lt + 1, Len(t)))
  ELSE IF CharRank(Head(s)) # CharRank(Head(t))
    THEN Sign(CharRank(Head(s)) - CharRank(Head(t)))
  ELSE localeCompare(Tail(s), Tail(t))

(***************************************************************************)
(* TreeNode and its factories                                              *)
(*                                                                         *)
(* Nodes live in a heap: a function from handles (object identities) to    *)
(* node records.  children is a sequence of handles; the optional parent   *)
(* and the optional metadata are sequences of length zero (unset) or one.  *)
(***************************************************************************)
NoFile == "none"

\* the object identity of a node: the root, the tag node created for a tag,
\* or the file node created for a file under a tag node
RootH == [kind |-> "root", tag |-> <<>>, file |-> NoFile]
TagH(tag) == [kind |-> "tag", tag |-> tag, file |-> NoFile]
FileH(tag, f) == [kind |-> "file", tag |-> tag, file |-> f]

Unset == <<>>

\* the key under which buildFromTags registers the root in nodeMap
RootKey == <<"r", "o", "o", "t">>

\* the root literal of buildFromTags
RootNode ==
  [id |-> RootKey, name |-> <<"R", "o", "o", "t">>, type |-> "tag",
   children |-> <<>>, parent |-> Unset, depth |-> 0, files |-> <<>>,
   fileCount |-> 0, metadata |-> Unset]

\* a property value (metadata.propertyValue is typed "any"): a tagged record
Value(t, str, n, b, l) == [t |-> t, s |-> str, n |-> n, b |-> b, l |-> l]
Undefined == Value("undefined", <<>>, 0, FALSE, <<>>)

Null == Value("null", <<>>, 0, FALSE, <<>>)
StrValue(str) == Value("string", str, 0, FALSE, <<>>)
NumValue(n) == Value("number", <<>>, n, FALSE, <<>>)
BoolValue(b) == Value("boolean", <<>>, 0, b, <<>>)
ListValue(l) == Value("list", <<>>, 0, FALSE, l)

RECURSIVE NatStringOf(_)
\* the decimal digits of a natural number
NatStringOf(n) ==
  IF n < 10 THEN <<Digits[n + 1]>>
  ELSE NatStringOf(n \div 10) \o <<Digits[(n % 10) + 1]>>

\* String(value) of a value that is not a list
ScalarStringOf(v) ==
  CASE v.t = "string" -> v.s
    [] v.t = "number" -> NatStringOf(v.n)
    [] v.t = "boolean" -> IF v.b THEN <<"t", "r", "u", "e">>
                          ELSE <<"f", "a", "l", "s", "e">>
    [] v.t = "null" -> <<"n", "u", "l", "l">>
    [] OTHER -> <<"u", "n", "d", "e", "f", "i", "n", "e", "d">>

\* an element of an array as Array.prototype.join renders it: null and
\* undefined become the empty string
ElementStringOf(v) ==
  IF v.t \in {"null", "undefined"} THEN <<>> ELSE ScalarStringOf(v)

\* String(value)
StringOf(v) ==
  IF v.t = "list"
  THEN Join([i \in 1..Len(v.l) |-> ElementStringOf(v.l[i])], <<",">>)
  ELSE ScalarStringOf(v)

\* metadata: { tagPath } as createTagNode sets it
TagMeta(tagPath) ==
  [tagPath |-> <<tagPath>>, propertyKey |-> Unset, propertyValue |-> Undefined]

\* createTagNode(tagPath, files, depth) without options: the name is the
\* last segment
createTagNode(tagPath, files, depth) ==
  LET segments == Split(tagPath)
  IN [id |-> <<"t", "a", "g", ":">> \o tagPath,
      name |-> segments[Len(segments)],
      type |-> "tag",
      children |-> <<>>, parent |-> Unset, depth |-> depth, files |-> files,
      fileCount |-> Len(files), metadata |-> <<TagMeta(tagPath)>>]

\* metadata: { propertyKey, propertyValue } as createPropertyGroupNode sets it
PropertyMeta(propertyKey, propertyValue) ==
  [tagPath |-> Unset, propertyKey |-> <<propertyKey>>,
   propertyValue |-> propertyValue]

\* createPropertyGroupNode(propertyKey, propertyValue, files, depth) without
\* options: the name is the string form of the value
createPropertyGroupNode(propertyKey, propertyValue, files, depth) ==
  [id |-> <<"p", "r", "o", "p", ":">> \o propertyKey \o <<":">>
            \o StringOf(propertyValue),
   name |-> StringOf(propertyValue),
   type |-> "property-group",
   children |-> <<>>, parent |-> Unset, depth |-> depth, files |-> files,
   fileCount |-> Len(files),
   metadata |-> <<PropertyMeta(propertyKey, propertyValue)>>]

createFileNode(file, depth) ==
  [id |-> <<"f", "i", "l", "e", ":">> \o Path(file),
   name |-> Basename(file),
   type |-> "file",
   children |-> <<>>, parent |-> Unset, depth |-> depth, files |-> <<file>>,
   fileCount |-> 1, metadata |-> Unset]

(***************************************************************************)
(* TreeBuilder                                                             *)
(***************************************************************************)
RECURSIVE InsertByDepth(_, _)
InsertByDepth(sorted, tag) ==
  IF sorted = <<>> THEN <<tag>>
  ELSE IF Len(Split(tag)) - Len(Split(Head(sorted))) < 0
    THEN <<tag>> \o sorted
  ELSE <<Head(sorted)>> \o InsertByDepth(Tail(sorted), tag)

RECURSIVE SortByDepthFrom(_, _)
SortByDepthFrom(sorted, rest) ==
  IF rest = <<>> THEN sorted
  ELSE SortByDepthFrom(InsertByDepth(sorted, Head(rest)), Tail(rest))

\* allTags.sort((a, b) => depthA - depthB); Array.prototype.sort is stable
SortByDepth(allTags) == SortByDepthFrom(<<>>, allTags)

\* Map.prototype.set: a new key is appended to the iteration order, an
\* existing key keeps its place
MapSet(nodeMap, key, h) ==
  [keys |-> IF key \in DOMAIN nodeMap.get THEN nodeMap.keys
            ELSE Append(nodeMap.keys, key),
   get |-> (key :> h) @@ nodeMap.get]

\* Map.prototype.get: the handle, or Unset for undefined
MapGet(nodeMap, key) ==
  IF key \in DOMAIN nodeMap.get THEN <<nodeMap.get[key]>> ELSE Unset

\* one iteration of the "Create tag nodes" loop of buildFromTags
\* the body of the tag loop without "node.parent = parent"
CreateTagNodeStep_noBackReference(st, tag) ==
  LET segments == Split(tag)
      depth == Len(segments)
      node == createTagNode(tag, <<>>, depth)
      h == TagH(tag)
      nodeMap == MapSet(st.nodeMap, tag, h)
      heap == (h :> node) @@ st.heap
      parentTag == Join(SliceButLast(segments), <<"/">>)
      parent == IF parentTag # <<>> THEN MapGet(nodeMap, parentTag) ELSE <<RootH>>
  IN [nodeMap |-> nodeMap,
      heap |-> IF parent # Unset
               THEN [heap EXCEPT ![parent[1]].children = Append(@, h)]
               ELSE heap]

CreateTagNodeStep(st, tag) ==
  LET segments == Split(tag)
      depth == Len(segments)
      node == createTagNode(tag, <<>>, depth)
      h == TagH(tag)
      nodeMap == MapSet(st.nodeMap, tag, h)
      heap == (h :> node) @@ st.heap
      parentTag == Join(SliceButLast(segments), <<"/">>)
      parent == IF parentTag # <<>> THEN MapGet(nodeMap, parentTag) ELSE <<RootH>>
  IN [nodeMap |-> nodeMap,
      heap |-> IF parent # Unset
               THEN [heap EXCEPT ![parent[1]].children = Append(@, h),
                                 ![h].parent = parent]
               ELSE heap]

RECURSIVE CreateTagNodes(_, _)
CreateTagNodes(st, sortedTags) ==
  IF sortedTags = <<>> THEN st
  ELSE CreateTagNodes(CreateTagNodeStep(st, Head(sortedTags)), Tail(sortedTags))

RECURSIVE MostSpecificTagFrom(_, _, _)
\* the inner loop of addFileNodes over the tags of one file
MostSpecificTagFrom(tagPath, mostSpecificTag, fileTagSeq) ==
  IF fileTagSeq = <<>> THEN mostSpecificTag
  ELSE LET fileTag == Head(fileTagSeq)
       IN MostSpecificTagFrom(tagPath,
            IF StartsWith(fileTag, tagPath) /\ Len(fileTag) > Len(mostSpecificTag)
            THEN fileTag ELSE mostSpecificTag,
            Tail(fileTagSeq))

MostSpecificTag(tagPath, fileTagSeq) ==
  MostSpecificTagFrom(tagPath, tagPath, fileTagSeq)

\* addFileNodes without the most-specific test: every file carrying the tag
FilesToAdd_everyFile(tagPath, filesWithTag, fileTagsOf) == filesWithTag

RECURSIVE FilesToAdd(_, _, _)
\* the files of filesWithTag whose most specific tag is tagPath
FilesToAdd(tagPath, filesWithTag, fileTagsOf) ==
  IF filesWithTag = <<>> THEN <<>>
  ELSE LET file == Head(filesWithTag)
           rest == FilesToAdd(tagPath, Tail(filesWithTag), fileTagsOf)
       IN IF MostSpecificTag(tagPath, fileTagsOf[file]) = tagPath
          THEN <<file>> \o rest ELSE rest

RECURSIVE PushFileNodes(_, _, _, _)
\* the "Add file nodes as children" loop
PushFileNodes(heap, key, h, filesToAdd) ==
  IF filesToAdd = <<>> THEN heap
  ELSE LET file == Head(filesToAdd)
           fh == FileH(key, file)
           fileNode == [createFileNode(file, heap[h].depth + 1) EXCEPT !.parent = <<h>>]
           heap1 == (fh :> fileNode) @@ heap
       IN PushFileNodes([heap1 EXCEPT ![h].children = Append(@, fh)],
                        key, h, Tail(filesToAdd))

RECURSIVE AddFileNodesFrom(_, _, _, _, _)
AddFileNodesFrom(heap, nodeMap, keys, filesWithTag, fileTagsOf) ==
  IF keys = <<>> THEN heap
  ELSE LET tagPath == Head(keys)
       IN IF tagPath = RootKey
          THEN AddFileNodesFrom(heap, nodeMap, Tail(keys), filesWithTag, fileTagsOf)
          ELSE AddFileNodesFrom(
                 PushFileNodes(heap, tagPath, nodeMap.get[tagPath],
                               FilesToAdd(tagPath, filesWithTag[tagPath], fileTagsOf)),
                 nodeMap, Tail(keys), filesWithTag, fileTagsOf)

\* addFileNodes(nodeMap): filesWithTag and fileTagsOf are what the indexer's
\* getFilesWithTag and getFileTags return
addFileNodes(heap, nodeMap, filesWithTag, fileTagsOf) ==
  AddFileNodesFrom(heap, nodeMap, nodeMap.keys, filesWithTag, fileTagsOf)

\* the comparator of sortTreeRecursive
CompareNodes(a, b) ==
  IF a.type # "file" /\ b.type = "file" THEN -1
  ELSE IF a.type = "file" /\ b.type # "file" THEN 1
  ELSE localeCompare(a.name, b.name)

RECURSIVE InsertNode(_, _, _)
InsertNode(heap, sorted, x) ==
  IF sorted = <<>> THEN <<x>>
  ELSE IF CompareNodes(heap[x], heap[Head(sorted)]) < 0 THEN <<x>> \o sorted
  ELSE <<Head(sorted)>> \o InsertNode(heap, Tail(sorted), x)

RECURSIVE SortNodesFrom(_, _, _)
SortNodesFrom(heap, sorted, rest) ==
  IF rest = <<>> THEN sorted
  ELSE SortNodesFrom(heap, InsertNode(heap, sorted, Head(rest)), Tail(rest))

\* node.children.sort(comparator), a stable sort
SortNodes(heap, children) == SortNodesFrom(heap, <<>>, children)

RECURSIVE sortTreeRecursive(_, _)
RECURSIVE SortEachChild(_, _)
\* sortTreeRecursive without the recursion into the children
sortTreeRecursive_shallow(heap, h) ==
  IF Len(heap[h].children) = 0 THEN heap
  ELSE [heap EXCEPT ![h].children = SortNodes(heap, heap[h].children)]

sortTreeRecursive(heap, h) ==
  IF Len(heap[h].children) = 0 THEN heap
  ELSE LET sorted == SortNodes(heap, heap[h].children)
       IN SortEachChild([heap EXCEPT ![h].children = sorted], sorted)

SortEachChild(heap, hs) ==
  IF hs = <<>> THEN heap
  ELSE SortEachChild(sortTreeRecursive(heap, Head(hs)), Tail(hs))

RECURSIVE calculateFileCounts(_, _)
RECURSIVE CountEachChild(_, _, _)
\* calculateFileCounts that returns the total of a group node without storing it
calculateFileCounts_notStored(heap, h) ==
  IF heap[h].type = "file"
  THEN [heap |-> [heap EXCEPT ![h].fileCount = 1], total |-> 1]
  ELSE CountEachChild(heap, heap[h].children, 0)

\* calculateFileCounts that takes every node without children for a file
calculateFileCounts_childless(heap, h) ==
  IF heap[h].type = "file" \/ Len(heap[h].children) = 0
  THEN [heap |-> [heap EXCEPT ![h].fileCount = 1], total |-> 1]
  ELSE LET r == CountEachChild(heap, heap[h].children, 0)
       IN [heap |-> [r.heap EXCEPT ![h].fileCount = r.total], total |-> r.total]

\* returns the heap with the counts written and the total of node h
calculateFileCounts(heap, h) ==
  IF heap[h].type = "file"
  THEN [heap |-> [heap EXCEPT ![h].fileCount = 1], total |-> 1]
  ELSE LET r == CountEachChild(heap, heap[h].children, 0)
       IN [heap |-> [r.heap EXCEPT ![h].fileCount = r.total], total |-> r.total]

CountEachChild(heap, hs, total) ==
  IF hs = <<>> THEN [heap |-> heap, total |-> total]
  ELSE LET r == calculateFileCounts(heap, Head(hs))
       IN CountEachChild(r.heap, Tail(hs), total + r.total)

\* buildFromTags, given what the indexer returns: allTags (getAllTags or
\* getNestedTagsUnder(rootTag)), filesWithTag and fileTagsOf.  The result
\* is the root handle and the heap of all nodes the call created.
buildFromTags(allTags, filesWithTag, fileTagsOf) ==
  LET st0 == [nodeMap |-> [keys |-> <<RootKey>>, get |-> (RootKey :> RootH)],
              heap |-> (RootH :> RootNode)]
      sortedTags == SortByDepth(allTags)
      st1 == CreateTagNodes(st0, sortedTags)
      heap2 == addFileNodes(st1.heap, st1.nodeMap, filesWithTag, fileTagsOf)
      heap3 == sortTreeRecursive(heap2, RootH)
      heap4 == calculateFileCounts(heap3, RootH).heap
  IN [root |-> RootH, heap |-> heap4]

(***************************************************************************)
(* SearchQueryBuilder                                                      *)
(*                                                                         *)
(* A filter is "string | null": Unset for null, <<str>> for a string.      *)
(***************************************************************************)
\* node.metadata?.tagPath, Unset when undefined
MetaTagPath(node) ==
  IF node.metadata = Unset THEN Unset ELSE node.metadata[1].tagPath

\* node.metadata?.propertyKey, Unset when undefined
MetaPropertyKey(node) ==
  IF node.metadata = Unset THEN Unset ELSE node.metadata[1].propertyKey

\* node.metadata?.propertyValue
MetaPropertyValue(node) ==
  IF node.metadata = Unset THEN Undefined ELSE node.metadata[1].propertyValue

\* !str for "string | undefined": undefined and the empty string are falsy
Falsy(opt) == opt = Unset \/ opt[1] = <<>>

\* buildTagFilter that renders the display name instead of the tag path
buildTagFilter_displayName(node) ==
  LET tagPath == MetaTagPath(node)
  IN IF Falsy(tagPath) THEN Unset
     ELSE <<(<<"t", "a", "g", ":", "#">> \o node.name)>>

buildTagFilter(node) ==
  LET tagPath == MetaTagPath(node)
  IN IF Falsy(tagPath) THEN Unset
     ELSE <<(<<"t", "a", "g", ":", "#">> \o tagPath[1])>>

\* buildPropertyFilter that lets a null value through
buildPropertyFilter_nullValue(node) ==
  LET propertyKey == MetaPropertyKey(node)
      propertyValue == MetaPropertyValue(node)
  IN IF Falsy(propertyKey) \/ propertyValue.t = "undefined"
     THEN Unset
     ELSE <<(<<"[">> \o propertyKey[1] \o <<":">> \o StringOf(propertyValue) \o <<"]">>)>>

buildPropertyFilter(node) ==
  LET propertyKey == MetaPropertyKey(node)
      propertyValue == MetaPropertyValue(node)
  IN IF Falsy(propertyKey) \/ propertyValue.t = "undefined" \/ propertyValue.t = "null"
     THEN Unset
     ELSE LET valueStr == StringOf(propertyValue)
          IN <<(<<"[">> \o propertyKey[1] \o <<":">> \o valueStr \o <<"]">>)>>

buildNodeFilter(node) ==
  IF node.type = "tag" THEN buildTagFilter(node)
  ELSE IF node.type = "property-group" THEN buildPropertyFilter(node)
  ELSE Unset

RECURSIVE CollectFilters(_, _, _)
\* the loop with filters.push in place of filters.unshift
CollectFilters_push(heap, currentNode, filters) ==
  IF currentNode = Unset THEN filters
  ELSE LET node == heap[currentNode[1]]
           filter == buildNodeFilter(node)
       IN CollectFilters(heap, node.parent,
            IF ~Falsy(filter) THEN Append(filters, filter[1]) ELSE filters)

\* the while loop of buildQuery: currentNode is Unset or <<handle>>
CollectFilters(heap, currentNode, filters) ==
  IF currentNode = Unset THEN filters
  ELSE LET node == heap[currentNode[1]]
           filter == buildNodeFilter(node)
       IN CollectFilters(heap, node.parent,
            IF ~Falsy(filter) THEN <<filter[1]>> \o filters ELSE filters)

\* buildQuery that starts the walk at the parent of the node
buildQuery_fromParent(heap, h) ==
  Join(CollectFilters(heap, heap[h].parent, <<>>), <<" ">>)

\* buildQuery(node) for the node with handle h
buildQuery(heap, h) == Join(CollectFilters(heap, <<h>>, <<>>), <<" ">>)

\* a walk that unlinks the node it started from
HeapAfterBuildQuery_detach(heap, h) == [heap EXCEPT ![h].parent = Unset]

\* the nodes after buildQuery(node): the call assigns only its locals
\* filters and currentNode, and no field of any node
HeapAfterBuildQuery(heap, h) == heap

(***************************************************************************)
(* TreeToolbar: the fields of the object, the elements render creates and  *)
(* the callbacks a call invokes                                            *)
(***************************************************************************)
MaxFileCount == 1

\* the FileSortMode values the model passes
FileSortModes == {"alpha-asc", "size-desc"}

AllTags == "All Tags"
ViewNames == {AllTags, "V1"}

\* the lists updateSavedViews is given: the names of the saved views
SavedViewLists == {<<>>, <<AllTags, "V1">>}

LabelA == <<"A">>
LabelB == <<"B">>

\* a LabeledFilter { label, filter, enabled?, showInToolbar? }; enabled and
\* showInToolbar are optional: Unset or <<boolean>>
LabeledFilter(label, filter, enabled, showInToolbar) ==
  [label |-> label, filter |-> filter, enabled |-> enabled,
   showInToolbar |-> showInToolbar]

BookmarkFilter(isBookmarked) == [type |-> "bookmark", isBookmarked |-> isBookmarked]
OtherFilter == [type |-> "other", isBookmarked |-> FALSE]

FilterA(enabled) == LabeledFilter(LabelA, BookmarkFilter(TRUE), enabled, <<TRUE>>)
FilterB(enabled) == LabeledFilter(LabelB, OtherFilter, enabled, Unset)

\* FilterConfig { expression?, filters }
FilterConfig(expression, filters) == [expression |-> expression, filters |-> filters]

ExplicitExpression == <<"A", " ", "O", "R", " ", "B">>

\* the values of currentViewConfig: null, a view without filters, and views
\* with filters and with or without an expression
ViewConfigs ==
  { Unset,
    <<[filters |-> Unset]>>,
    <<[filters |-> <<FilterConfig(Unset, <<>>)>>]>>,
    <<[filters |-> <<FilterConfig(Unset, <<FilterA(Unset), FilterB(<<TRUE>>)>>)>>]>>,
    <<[filters |-> <<FilterConfig(<<<<" ">>>>, <<FilterA(<<TRUE>>), FilterB(<<FALSE>>)>>)>>]>>,
    <<[filters |-> <<FilterConfig(<<<<>>>>, <<FilterA(<<FALSE>>)>>)>>]>>,
    <<[filters |-> <<FilterConfig(<<ExplicitExpression>>,
                                  <<FilterA(<<TRUE>>), FilterB(<<FALSE>>)>>)>>]>> }

\* the fields after "new TreeToolbar(callbacks)", every default taken
NewTreeToolbar ==
  [container |-> FALSE,
   currentFileSortMode |-> "alpha-asc",
   showFiles |-> TRUE,
   savedViews |-> <<>>,
   currentViewName |-> AllTags,
   currentViewConfig |-> Unset,
   isCollapsed |-> FALSE,
   filterOverridesEnabled |-> FALSE,
   filterExplanationCollapsed |-> TRUE,
   fileCount |-> 0]

RECURSIVE TrimStart(_)
TrimStart(str) ==
  IF str # <<>> /\ Head(str) = " " THEN TrimStart(Tail(str)) ELSE str

\* String.prototype.trim, for strings whose only white space is the blank
Trim(str) == Reverse(TrimStart(Reverse(TrimStart(str))))

\* getFilterDescription(filter)
getFilterDescription(filter) ==
  IF filter.type = "bookmark"
  THEN IF filter.isBookmarked THEN <<"I", "s", " ", "b", "o", "o", "k", "m", "a", "r", "k", "e", "d">> ELSE <<"I", "s", " ", "n", "o", "t", " ", "b", "o", "o", "k", "m", "a", "r", "k", "e", "d">>
  ELSE <<"U", "n", "k", "n", "o", "w", "n", " ", "f", "i", "l", "t", "e", "r">>

RECURSIVE MapLabels(_)
\* filters.map(lf => lf.label)
MapLabels(filters) ==
  IF filters = <<>> THEN <<>> ELSE <<Head(filters).label>> \o MapLabels(Tail(filters))

RECURSIVE ListItems(_)
\* the <li> texts of the list of the filter explanation
ListItems(filters) ==
  IF filters = <<>> THEN <<>>
  ELSE IF Head(filters).enabled = <<FALSE>> THEN ListItems(Tail(filters))
  ELSE <<Head(filters).label \o <<":", " ">> \o getFilterDescription(Head(filters).filter)>>
       \o ListItems(Tail(filters))

ExpressionPrefix == <<"E", "x", "p", "r", "e", "s", "s", "i", "o", "n", ":", " ">>
DefaultSuffix == <<" ", "(", "d", "e", "f", "a", "u", "l", "t", ")">>

\* renderFilterExplanation: the text of the expression line and the list
renderFilterExplanation(tb) ==
  LET filters == tb.currentViewConfig[1].filters[1]
      expression == IF filters.expression = Unset THEN <<>>
                    ELSE Trim(filters.expression[1])
  IN [summary |-> tb.fileCount,
      expression |->
        IF expression # <<>>
        THEN ExpressionPrefix \o expression
        ELSE ExpressionPrefix \o Join(MapLabels(filters.filters), <<" ", "&", " ">>)
             \o DefaultSuffix,
      list |-> ListItems(filters.filters)]

\* the filters of the quick filter row
InteractiveFilters(filters) ==
  FilterSeq(filters, {lf \in Range(filters) :
                        lf.enabled # <<FALSE>> /\ lf.showInToolbar = <<TRUE>>})

\* "currentViewConfig?.filters && currentViewConfig.filters.filters?.length > 0"
HasFilters(tb) ==
  /\ tb.currentViewConfig # Unset
  /\ tb.currentViewConfig[1].filters # Unset
  /\ Len(tb.currentViewConfig[1].filters[1].filters) > 0

NoDom ==
  [status |-> "none", viewName |-> "", switcher |-> Unset,
   toggleActive |-> FALSE, toggleAriaChecked |-> "", toggleIcon |-> "",
   sortValue |-> "", quickFilters |-> <<>>, explanation |-> Unset]

\* the elements render(container) creates from the fields
render(tb) ==
  [status |-> "rendered",
   viewName |-> tb.currentViewName,
   switcher |-> IF Len(tb.savedViews) > 1
                THEN <<[options |-> tb.savedViews, value |-> tb.currentViewName]>>
                ELSE Unset,
   toggleActive |-> tb.showFiles,
   toggleAriaChecked |-> IF tb.showFiles THEN "true" ELSE "false",
   toggleIcon |-> IF tb.showFiles THEN "eye" ELSE "eye-off",
   sortValue |-> tb.currentFileSortMode,
   quickFilters |-> IF HasFilters(tb)
                    THEN MapLabels(InteractiveFilters(tb.currentViewConfig[1].filters[1].filters))
                    ELSE <<>>,
   explanation |-> IF HasFilters(tb) THEN <<renderFilterExplanation(tb)>> ELSE Unset]

\* what a call did: the fields and the elements after it, how often it
\* called render and the callbacks it invoked, in order
Effect(tb, d, renders, callbacks) ==
  [toolbar |-> tb, dom |-> d, renders |-> renders, callbacks |-> callbacks]

\* "if (this.container) this.render(this.container)" after the fields became tb
Rerender(tb, d) ==
  IF tb.container THEN Effect(tb, render(tb), 1, <<>>) ELSE Effect(tb, d, 0, <<>>)

\* an argument: a string, a boolean or a number
Arg(str, b, n) == [s |-> str, b |-> b, n |-> n]
NoArg == Arg("", FALSE, 0)
StrArg(str) == Arg(str, FALSE, 0)
BoolArg(b) == Arg("", b, 0)
NumArg(n) == Arg("", FALSE, n)

Callback(name, arg) == [name |-> name, arg |-> arg]

\* render(container)
renderInto(tb) ==
  LET rendered == [tb EXCEPT !.container = TRUE]
  IN Effect(rendered, render(rendered), 1, <<>>)

\* the values of depthOptions
DepthOptions == {0, 1, 2, 3, -1}

\* the click handler of a depth button
depthOnClick(tb, d, value) ==
  Effect(tb, d, 0,
         IF value = -1 THEN <<Callback("onExpandAll", NoArg)>>
         ELSE <<Callback("onExpandToDepth", NumArg(value))>>)

\* the click handlers of the Collapse, Expand and Refresh buttons
buttonOnClick(tb, d, callback) == Effect(tb, d, 0, <<Callback(callback, NoArg)>>)

setFileSortMode(tb, d, mode) ==
  IF tb.currentFileSortMode = mode THEN Effect(tb, d, 0, <<>>)
  ELSE Rerender([tb EXCEPT !.currentFileSortMode = mode], d)

setFileVisibility(tb, d, show) ==
  IF tb.showFiles = show THEN Effect(tb, d, 0, <<>>)
  ELSE Rerender([tb EXCEPT !.showFiles = show], d)

updateSavedViews(tb, d, savedViews) ==
  Rerender([tb EXCEPT !.savedViews = savedViews], d)

setCurrentViewName(tb, d, viewName) ==
  IF tb.currentViewName = viewName THEN Effect(tb, d, 0, <<>>)
  ELSE Rerender([tb EXCEPT !.currentViewName = viewName], d)

setCurrentViewConfig(tb, d, viewConfig) ==
  Rerender([tb EXCEPT !.currentViewConfig = viewConfig], d)

\* setFileCount that renders without comparing
setFileCount_alwaysRenders(tb, d, count) ==
  Rerender([tb EXCEPT !.fileCount = count], d)

setFileCount(tb, d, count) ==
  IF tb.fileCount = count THEN Effect(tb, d, 0, <<>>)
  ELSE Rerender([tb EXCEPT !.fileCount = count], d)

setFilterOverridesEnabled(tb, d, enabled) ==
  IF tb.filterOverridesEnabled = enabled THEN Effect(tb, d, 0, <<>>)
  ELSE Rerender([tb EXCEPT !.filterOverridesEnabled = enabled], d)

\* a change handler that also takes the chosen name over
viewSwitcherOnChange_takesOver(tb, d, value) ==
  Effect([tb EXCEPT !.currentViewName = value],
         [d EXCEPT !.switcher = <<[@[1] EXCEPT !.value = value]>>],
         0, <<Callback("onViewChange", StrArg(value))>>)

\* the change handler of the view switcher; the dropdown shows the choice
viewSwitcherOnChange(tb, d, value) ==
  Effect(tb, [d EXCEPT !.switcher = <<[@[1] EXCEPT !.value = value]>>],
         0, <<Callback("onViewChange", StrArg(value))>>)

\* a click handler that leaves the attribute of the button as rendered
toggleOnClick_staleAttribute(tb, d) ==
  LET showFiles == ~tb.showFiles
  IN Effect([tb EXCEPT !.showFiles = showFiles],
            [d EXCEPT !.toggleActive = showFiles,
                      !.toggleIcon = IF showFiles THEN "eye" ELSE "eye-off"],
            0, <<Callback("onToggleFiles", NoArg)>>)

\* the click handler of the file visibility toggle
toggleOnClick(tb, d) ==
  LET showFiles == ~tb.showFiles
  IN Effect([tb EXCEPT !.showFiles = showFiles],
            [d EXCEPT !.toggleActive = showFiles,
                      !.toggleAriaChecked = IF showFiles THEN "true" ELSE "false",
                      !.toggleIcon = IF showFiles THEN "eye" ELSE "eye-off"],
            0, <<Callback("onToggleFiles", NoArg)>>)

\* the change handler of the sort dropdown
sortOnChange(tb, d, value) ==
  Effect([tb EXCEPT !.currentFileSortMode = value],
         [d EXCEPT !.sortValue = value],
         0, <<Callback("onFileSortChange", StrArg(value))>>)

NoCall == [op |-> "none", arg |-> NoArg, renders |-> 0, callbacks |-> <<>>]

(***************************************************************************)
(* Plugin settings: migrateSettings                                        *)
(*                                                                         *)
(* A property of an object is absent or present with a value; the values   *)
(* are strings, "null" stands for null and "{}", "{0}" for objects.        *)
(***************************************************************************)
MaxViews == 2

Missing == [has |-> FALSE, v |-> ""]
Present(v) == [has |-> TRUE, v |-> v]

\* "!object.property" is false
Truthy(property) == property.has /\ property.v \notin {"", "null"}

\* the names of the saved views, by position
ViewNameList == <<AllTags, "V1", "V2", "V3">>

\* the sort properties a saved view can come with
ViewShapes ==
  [sortMode : {Missing, Present(""), Present("size-desc")},
   defaultFileSortMode : {Missing, Present(""), Present("alpha-desc")},
   defaultNodeSortMode : {Missing, Present("count-desc")}]

\* the properties a view state can come with
ViewStateShapes ==
  [sortMode : {Missing, Present(""), Present("size-desc")},
   fileSortMode : {Missing, Present(""), Present("alpha-desc")},
   levelSortOverrides : {Missing, Present("null"), Present("{0}")}]

SavedViewsOfLength(n) ==
  {[i \in 1..n |-> [name |-> ViewNameList[i],
                    sortMode |-> f[i].sortMode,
                    defaultFileSortMode |-> f[i].defaultFileSortMode,
                    defaultNodeSortMode |-> f[i].defaultNodeSortMode]] :
     f \in [1..n -> ViewShapes]}

\* the settings objects handed to migrateSettings
SettingsObjects ==
  {[loaded |-> TRUE, savedViews |-> views, defaultViewName |-> AllTags,
    viewStates |-> states] :
     views \in UNION {SavedViewsOfLength(n) : n \in 0..MaxViews},
     states \in UNION {[keys -> ViewStateShapes] : keys \in SUBSET {AllTags}}}

Unloaded ==
  [loaded |-> FALSE, savedViews |-> <<>>, defaultViewName |-> "",
   viewStates |-> <<>>]

NotMigrated == [status |-> "none", before |-> Unloaded]

\* the view callback that removes sortMode only when no field took it over
migrateView_deletesLater(view) ==
  LET copied == view.sortMode.has /\
                (~Truthy(view.defaultFileSortMode) \/ ~Truthy(view.defaultNodeSortMode))
      v1 == IF view.sortMode.has
            THEN [view EXCEPT
                    !.defaultFileSortMode = IF ~Truthy(@) THEN Present(view.sortMode.v) ELSE @,
                    !.defaultNodeSortMode = IF ~Truthy(@) THEN Present(view.sortMode.v) ELSE @,
                    !.sortMode = IF copied THEN @ ELSE Missing]
            ELSE view
      v2 == [v1 EXCEPT !.defaultNodeSortMode =
                         IF ~Truthy(@) THEN Present("alpha-asc") ELSE @]
  IN [v2 EXCEPT !.defaultFileSortMode = IF ~Truthy(@) THEN Present("alpha-asc") ELSE @]

\* the view callback that copies sortMode without looking at the fields
migrateView_overwrites(view) ==
  LET v1 == IF view.sortMode.has
            THEN [view EXCEPT
                    !.defaultFileSortMode = Present(view.sortMode.v),
                    !.defaultNodeSortMode = Present(view.sortMode.v),
                    !.sortMode = Missing]
            ELSE view
      v2 == [v1 EXCEPT !.defaultNodeSortMode =
                         IF ~Truthy(@) THEN Present("alpha-asc") ELSE @]
  IN [v2 EXCEPT !.defaultFileSortMode = IF ~Truthy(@) THEN Present("alpha-asc") ELSE @]

\* the callback of settings.savedViews.forEach
migrateView(view) ==
  LET v1 == IF view.sortMode.has
            THEN [view EXCEPT
                    !.defaultFileSortMode = IF ~Truthy(@) THEN Present(view.sortMode.v) ELSE @,
                    !.defaultNodeSortMode = IF ~Truthy(@) THEN Present(view.sortMode.v) ELSE @,
                    !.sortMode = Missing]
            ELSE view
      v2 == [v1 EXCEPT !.defaultNodeSortMode =
                         IF ~Truthy(@) THEN Present("alpha-asc") ELSE @]
  IN [v2 EXCEPT !.defaultFileSortMode = IF ~Truthy(@) THEN Present("alpha-asc") ELSE @]

\* the view state callback that keeps the old property
migrateViewState_keepsSortMode(state) ==
  LET s1 == IF state.sortMode.has
            THEN [state EXCEPT
                    !.fileSortMode = IF ~Truthy(@) THEN Present(state.sortMode.v) ELSE @]
            ELSE state
  IN [s1 EXCEPT !.levelSortOverrides = IF ~Truthy(@) THEN Present("{}") ELSE @]

\* the callback of Object.values(settings.viewStates).forEach
migrateViewState(state) ==
  LET s1 == IF state.sortMode.has
            THEN [state EXCEPT
                    !.fileSortMode = IF ~Truthy(@) THEN Present(state.sortMode.v) ELSE @,
                    !.sortMode = Missing]
            ELSE state
  IN [s1 EXCEPT !.levelSortOverrides = IF ~Truthy(@) THEN Present("{}") ELSE @]

\* migrateSettings(settings): the object after the call
migrateSettings(settings) ==
  [settings EXCEPT
     !.savedViews = [i \in 1..Len(@) |-> migrateView(@[i])],
     !.viewStates = [k \in DOMAIN @ |-> migrateViewState(@[k])]]

(***************************************************************************)
(* VaultIndexer: per-document tags and properties, and the reverse index   *)
(* tag -> documents and (key, value) -> documents                          *)
(***************************************************************************)
VARIABLES
  fileTags,       \* document -> its tag set, for the documents observed
  tagIndex,       \* tag -> the non-empty set of documents carrying exactly it
  fileProps,      \* document -> its properties (key -> value)
  propertyIndex,  \* <<key, value>> -> the non-empty set of documents having it
  writer,         \* the index mutation in progress on a private copy
  observed,       \* what the last lookup of a reader returned
  predicates,     \* the stored list of filter predicates
  selected,       \* what the last call of select returned
  toolbar,        \* the fields of the TreeToolbar object
  dom,            \* the elements the toolbar rendered into its container
  lastCall,       \* what the last call on the toolbar did
  settings,       \* the plugin's settings object
  migration,      \* the settings object before the last migrateSettings
  built,          \* what the last call returned: the tree of buildFromTags
  qheap,          \* the nodes of a tree handed to SearchQueryBuilder
  query           \* what the last call returned: the string of buildQuery

vars == <<fileTags, tagIndex, fileProps, propertyIndex, writer, observed,
          predicates, selected, toolbar, dom, lastCall, settings, migration,
          built, qheap, query>>

storeVars == <<fileTags, tagIndex, fileProps, propertyIndex>>
snapshotVars == <<writer, observed>>
filterVars == <<predicates, selected>>
toolbarVars == <<toolbar, dom, lastCall>>
settingsVars == <<settings, migration>>
uiVars == <<toolbarVars, settingsVars>>
indexVars == <<storeVars, snapshotVars, filterVars, uiVars, built>>
queryVars == <<qheap, query>>

EmptyMap == [x \in {} |-> {}]

\* the <<key, value>> pairs of a property set: one per key, and one per
\* element of a list value
PropertyEntries(props) ==
  UNION {{<<k, props[k]>>} \cup
         (IF props[k].t = "list"
          THEN {<<k, props[k].l[i]>> : i \in 1..Len(props[k].l)} ELSE {})
         : k \in DOMAIN props}

\* removeDocument that leaves the entries of the document in place
IndexRemove_keepsEntries(idx, id) == idx

\* remove every entry referencing document id
IndexRemove(idx, id) ==
  [t \in {u \in DOMAIN idx : idx[u] \ {id} # {}} |-> idx[t] \ {id}]

\* insert an entry for every tag (or <<key, value>> pair) of document id
IndexInsert(idx, id, tags) ==
  [t \in DOMAIN idx \cup tags |->
     (IF t \in DOMAIN idx THEN idx[t] ELSE {}) \cup (IF t \in tags THEN {id} ELSE {})]

\* tagsUnderPrefix / getNestedTagsUnder
tagsUnderPrefix(idx, prefix) ==
  {t \in DOMAIN idx : t = prefix \/ StartsWith(t, prefix \o <<"/">>)}

\* documentsWithTag / getFilesWithTag: exact match
documentsWithTag(idx, tag) == IF tag \in DOMAIN idx THEN idx[tag] ELSE {}

\* getFileTags
getFileTags(store, f) ==
  IF f \in DOMAIN store THEN FilterSeq(AllTagList, store[f]) ELSE <<>>

NoBuild == [status |-> "none", rootTag |-> <<>>, root |-> RootH, heap |-> EmptyMap]

NoQuery == [status |-> "none", node |-> 0, result |-> <<>>]

\* no mutation in progress
Idle ==
  [pc |-> "idle", id |-> NoFile, isRemove |-> FALSE,
   tags |-> {}, properties |-> EmptyMap,
   work |-> [tagIndex |-> EmptyMap, propertyIndex |-> EmptyMap],
   removeTags |-> {}, removeProps |-> {}, insertTags |-> {}, insertProps |-> {}]

NoLookup == [status |-> "none", tagIndex |-> EmptyMap, propertyIndex |-> EmptyMap]

NoSelection == [status |-> "none", docs |-> {}]

Init ==
  /\ settings = Unloaded
  /\ migration = NotMigrated
  /\ toolbar = NewTreeToolbar
  /\ dom = NoDom
  /\ lastCall = NoCall
  /\ predicates = <<>>
  /\ selected = NoSelection
  /\ writer = Idle
  /\ observed = NoLookup
  /\ fileTags = EmptyMap
  /\ tagIndex = EmptyMap
  /\ fileProps = EmptyMap
  /\ propertyIndex = EmptyMap
  /\ built = NoBuild
  /\ qheap = <<>>
  /\ query = NoQuery

upsertDocument(id, tags, properties) ==
  /\ fileTags' = (id :> tags) @@ fileTags
  /\ tagIndex' = IndexInsert(IndexRemove(tagIndex, id), id, tags)
  /\ fileProps' = (id :> properties) @@ fileProps
  /\ propertyIndex' = IndexInsert(IndexRemove(propertyIndex, id), id,
                                   PropertyEntries(properties))
  /\ built' = NoBuild
  /\ selected' = NoSelection
  /\ UNCHANGED <<queryVars, uiVars, snapshotVars, predicates>>

removeDocument(id) ==
  /\ fileTags' = [f \in DOMAIN fileTags \ {id} |-> fileTags[f]]
  /\ tagIndex' = IndexRemove(tagIndex, id)
  /\ fileProps' = [f \in DOMAIN fileProps \ {id} |-> fileProps[f]]
  /\ propertyIndex' = IndexRemove(propertyIndex, id)
  /\ built' = NoBuild
  /\ selected' = NoSelection
  /\ UNCHANGED <<queryVars, uiVars, snapshotVars, predicates>>

\* the tags the indexer hands to buildFromTags(rootTag)
CandidateTags(idx, rootTag) ==
  IF rootTag # NoRootTag THEN tagsUnderPrefix(idx, rootTag) ELSE DOMAIN idx

\* the orders in which the indexer may list a set of tags: its contract fixes
\* none, the model lets it list them in ascending or in descending order
TagListings(S) == {FilterSeq(AllTagList, S), Reverse(FilterSeq(AllTagList, S))}

\* a call of TreeBuilder.buildFromTags(rootTag); the indexer lists the tags
\* and the documents of a tag in an order of its own
Build(rootTag) ==
  \E allTags \in TagListings(CandidateTags(tagIndex, rootTag)), fileOrder \in Perms(Files) :
    LET filesWithTag == [t \in Range(allTags) |->
                           FilterSeq(fileOrder, documentsWithTag(tagIndex, t))]
        fileTagsOf == [f \in Files |-> getFileTags(fileTags, f)]
        tree == buildFromTags(allTags, filesWithTag, fileTagsOf)
    IN /\ built' = [status |-> "returned", rootTag |-> rootTag,
                    root |-> tree.root, heap |-> tree.heap]
       /\ UNCHANGED <<storeVars, snapshotVars, queryVars, uiVars, filterVars>>

\* a document without properties
NoProperties == EmptyMap

Next ==
  \/ \E id \in Files, tags \in TagSets : upsertDocument(id, tags, NoProperties)
  \/ \E id \in Files : removeDocument(id)
  \/ \E rootTag \in RootTagArgs : Build(rootTag)

Spec == Init /\ [][Next]_vars

\* documents tagged below a tag named like the root key of buildFromTags
RootKeyTagSets == SUBSET {TagRoot, TagRootX, TagA}

NextRootKey ==
  \/ \E id \in Files, tags \in RootKeyTagSets : upsertDocument(id, tags, NoProperties)
  \/ \E id \in Files : removeDocument(id)
  \/ \E rootTag \in {NoRootTag, TagRoot} : Build(rootTag)

RootKeySpec == Init /\ [][NextRootKey]_vars

(***************************************************************************)
(* The reverse index under change notifications for documents with tags    *)
(* and properties                                                          *)
(***************************************************************************)
Done == <<"d", "o", "n", "e">>

\* the tag sets of the change notifications
IndexTagSets == SUBSET {TagA, TagA_B}

\* the property sets of the change notifications
PropertySets ==
  { NoProperties,
    (<<"s", "t", "a", "t", "u", "s">> :> StrValue(Done)),
    (<<"s", "t", "a", "t", "u", "s">> :> StrValue(<<"a", "c", "t", "i", "v", "e">>)),
    (<<"l", "a", "b", "e", "l", "s">> :>
       ListValue(<<StrValue(<<"x">>), StrValue(Done)>>)) }

\* documentsWithProperty(key, value): exact-value lookup
documentsWithPropertyValue(idx, key, value) ==
  IF <<key, value>> \in DOMAIN idx THEN idx[<<key, value>>] ELSE {}

\* documentsWithProperty(key): the union across all values of the key
documentsWithProperty(idx, key) ==
  UNION {idx[e] : e \in {d \in DOMAIN idx : d[1] = key}}

NextIndex ==
  \/ \E id \in Files, tags \in IndexTagSets, properties \in PropertySets :
       upsertDocument(id, tags, properties)
  \/ \E id \in Files : removeDocument(id)

IndexSpec == Init /\ [][NextIndex]_vars

(***************************************************************************)
(* FilterEngine (section 4.3 of spec.md): the stored predicates, each one  *)
(* independently toggleable, and select with no explicit expression, which *)
(* is the AND-conjunction of the enabled predicates in their stored order. *)
(***************************************************************************)
MaxPredicates == 3

KeyOfStatus == <<"s", "t", "a", "t", "u", "s">>

\* the change notifications of this specification
FilterTagSets == {{}, {TagA_B}, {TagAB}}
FilterPropertySets == {NoProperties, (KeyOfStatus :> StrValue(Done))}

TagMatch(mode, target, enabled) ==
  [kind |-> "tag-match", mode |-> mode, target |-> target, key |-> <<>>,
   enabled |-> enabled]

PropertyExists(key, enabled) ==
  [kind |-> "property-exists", mode |-> "", target |-> <<>>, key |-> key,
   enabled |-> enabled]

\* the predicates a user stores
PredicateChoices ==
  {TagMatch("prefix", TagA, e) : e \in BOOLEAN} \cup
  {TagMatch("exact", TagAB, e) : e \in BOOLEAN} \cup
  {PropertyExists(KeyOfStatus, e) : e \in BOOLEAN}

\* tag-match: exact compares the full tag string, prefix matches the tag
\* or a descendant of it
tagMatches(mode, target, tag) ==
  IF mode = "exact" THEN tag = target
  ELSE tag = target \/ StartsWith(tag, target \o <<"/">>)

\* one predicate on one document: total, a missing document or a missing
\* property is a non-match
matches(p, tagsOf, propsOf, d) ==
  IF p.kind = "tag-match"
  THEN d \in DOMAIN tagsOf /\ \E t \in tagsOf[d] : tagMatches(p.mode, p.target, t)
  ELSE d \in DOMAIN propsOf /\ p.key \in DOMAIN propsOf[d]

\* the default conjunction that also evaluates the disabled predicates
RECURSIVE evaluate_disabledToo(_, _, _, _, _)
evaluate_disabledToo(preds, i, tagsOf, propsOf, d) ==
  IF i > Len(preds) THEN TRUE
  ELSE IF ~matches(preds[i], tagsOf, propsOf, d) THEN FALSE
  ELSE evaluate_disabledToo(preds, i + 1, tagsOf, propsOf, d)

\* evaluate with no explicit expression: the enabled predicates from the
\* i-th on, in stored order, stopping at the first that fails
RECURSIVE evaluate(_, _, _, _, _)
evaluate(preds, i, tagsOf, propsOf, d) ==
  IF i > Len(preds) THEN TRUE
  ELSE IF ~preds[i].enabled THEN evaluate(preds, i + 1, tagsOf, propsOf, d)
  ELSE IF ~matches(preds[i], tagsOf, propsOf, d) THEN FALSE
  ELSE evaluate(preds, i + 1, tagsOf, propsOf, d)

\* select with no explicit expression
select(preds, tagsOf, propsOf, documentIds) ==
  {d \in documentIds : evaluate(preds, 1, tagsOf, propsOf, d)}

AddPredicate(p) ==
  /\ Len(predicates) < MaxPredicates
  /\ predicates' = Append(predicates, p)
  /\ selected' = NoSelection
  /\ UNCHANGED <<storeVars, snapshotVars, built, queryVars, uiVars>>

\* the user toggles the i-th predicate
TogglePredicate(i) ==
  /\ i \in 1..Len(predicates)
  /\ predicates' = [predicates EXCEPT ![i].enabled = ~@]
  /\ selected' = NoSelection
  /\ UNCHANGED <<storeVars, snapshotVars, built, queryVars, uiVars>>

RemovePredicate(i) ==
  /\ i \in 1..Len(predicates)
  /\ predicates' = SubSeq(predicates, 1, i - 1) \o
                    SubSeq(predicates, i + 1, Len(predicates))
  /\ selected' = NoSelection
  /\ UNCHANGED <<storeVars, snapshotVars, built, queryVars, uiVars>>

Select ==
  /\ selected' = [status |-> "returned",
                   docs |-> select(predicates, fileTags, fileProps, Files)]
  /\ UNCHANGED <<storeVars, snapshotVars, predicates, built, queryVars, uiVars>>

NextFilter ==
  \/ \E id \in Files, tags \in FilterTagSets, properties \in FilterPropertySets :
       upsertDocument(id, tags, properties)
  \/ \E id \in Files : removeDocument(id)
  \/ \E p \in PredicateChoices : AddPredicate(p)
  \/ \E i \in 1..MaxPredicates : TogglePredicate(i)
  \/ \E i \in 1..MaxPredicates : RemovePredicate(i)
  \/ Select

FilterSpec == Init /\ [][NextFilter]_vars

(***************************************************************************)
(* One writer and concurrent readers (section 5 of spec.md): the writer    *)
(* applies a mutation entry by entry to a private copy of the index and    *)
(* replaces the published index only when the copy is fully built; tagIndex*)
(* and propertyIndex are the published index, fileTags and fileProps the   *)
(* store it was derived from.                                              *)
(***************************************************************************)
\* the property sets of the change notifications of this specification
SnapshotPropertySets ==
  {NoProperties, (<<"s", "t", "a", "t", "u", "s">> :> StrValue(Done))}

\* the entries of idx that hold document id
EntriesOf(idx, id) == {e \in DOMAIN idx : id \in idx[e]}

\* remove document id from the single entry e
RemoveFromEntry(idx, e, id) ==
  [k \in (IF idx[e] \ {id} = {} THEN DOMAIN idx \ {e} ELSE DOMAIN idx) |->
     IF k = e THEN idx[k] \ {id} ELSE idx[k]]

\* the writer takes the next mutation: upsertDocument or removeDocument
BeginMutation(id, isRemove, tags, properties) ==
  /\ writer.pc = "idle"
  /\ isRemove => tags = {} /\ properties = NoProperties
  /\ writer' = [pc |-> "mutating", id |-> id, isRemove |-> isRemove,
                 tags |-> tags, properties |-> properties,
                 work |-> [tagIndex |-> tagIndex, propertyIndex |-> propertyIndex],
                 removeTags |-> EntriesOf(tagIndex, id),
                 removeProps |-> EntriesOf(propertyIndex, id),
                 insertTags |-> tags,
                 insertProps |-> PropertyEntries(properties)]
  /\ observed' = NoLookup
  /\ UNCHANGED <<storeVars, built, queryVars, uiVars, filterVars>>

\* the writer removes the document from one of its prior entries
RemoveTagEntry ==
  /\ writer.pc = "mutating"
  /\ \E e \in writer.removeTags :
       writer' = [writer EXCEPT
                    !.work.tagIndex = RemoveFromEntry(@, e, writer.id),
                    !.removeTags = @ \ {e}]
  /\ observed' = NoLookup
  /\ UNCHANGED <<storeVars, built, queryVars, uiVars, filterVars>>

RemovePropertyEntry ==
  /\ writer.pc = "mutating"
  /\ \E e \in writer.removeProps :
       writer' = [writer EXCEPT
                    !.work.propertyIndex = RemoveFromEntry(@, e, writer.id),
                    !.removeProps = @ \ {e}]
  /\ observed' = NoLookup
  /\ UNCHANGED <<storeVars, built, queryVars, uiVars, filterVars>>

\* once the prior entries are gone the writer inserts the new ones
InsertTagEntry ==
  /\ writer.pc = "mutating"
  /\ writer.removeTags = {} /\ writer.removeProps = {}
  /\ \E e \in writer.insertTags :
       writer' = [writer EXCEPT
                    !.work.tagIndex = IndexInsert(@, writer.id, {e}),
                    !.insertTags = @ \ {e}]
  /\ observed' = NoLookup
  /\ UNCHANGED <<storeVars, built, queryVars, uiVars, filterVars>>

InsertPropertyEntry ==
  /\ writer.pc = "mutating"
  /\ writer.removeTags = {} /\ writer.removeProps = {}
  /\ \E e \in writer.insertProps :
       writer' = [writer EXCEPT
                    !.work.propertyIndex = IndexInsert(@, writer.id, {e}),
                    !.insertProps = @ \ {e}]
  /\ observed' = NoLookup
  /\ UNCHANGED <<storeVars, built, queryVars, uiVars, filterVars>>

\* the fully built copy replaces the published index
Publish ==
  /\ writer.pc = "mutating"
  /\ writer.removeTags = {} /\ writer.removeProps = {}
  /\ writer.insertTags = {} /\ writer.insertProps = {}
  /\ tagIndex' = writer.work.tagIndex
  /\ propertyIndex' = writer.work.propertyIndex
  /\ fileTags' = IF writer.isRemove
                  THEN [f \in DOMAIN fileTags \ {writer.id} |-> fileTags[f]]
                  ELSE (writer.id :> writer.tags) @@ fileTags
  /\ fileProps' = IF writer.isRemove
                   THEN [f \in DOMAIN fileProps \ {writer.id} |-> fileProps[f]]
                   ELSE (writer.id :> writer.properties) @@ fileProps
  /\ writer' = Idle
  /\ observed' = NoLookup
  /\ UNCHANGED <<built, queryVars, uiVars, filterVars>>

\* the index a reader is handed while a mutation is in progress on copy
\* work: one that mutates in place hands out the copy
ReaderView_inPlace(publishedIndex, work) == work

\* the index a reader is handed: the published one
ReaderView(publishedIndex, work) == publishedIndex

\* a reader looks the index up, at any moment
Lookup ==
  /\ observed' =
       LET view == ReaderView(
                     [tagIndex |-> tagIndex, propertyIndex |-> propertyIndex],
                     IF writer.pc = "idle"
                     THEN [tagIndex |-> tagIndex, propertyIndex |-> propertyIndex]
                     ELSE writer.work)
       IN [status |-> "returned", tagIndex |-> view.tagIndex,
           propertyIndex |-> view.propertyIndex]
  /\ UNCHANGED <<storeVars, writer, built, queryVars, uiVars, filterVars>>

NextSnapshot ==
  \/ \E id \in Files, tags \in IndexTagSets, properties \in SnapshotPropertySets :
       BeginMutation(id, FALSE, tags, properties)
  \/ \E id \in Files : BeginMutation(id, TRUE, {}, NoProperties)
  \/ RemoveTagEntry
  \/ RemovePropertyEntry
  \/ InsertTagEntry
  \/ InsertPropertyEntry
  \/ Publish
  \/ Lookup

SnapshotSpec == Init /\ [][NextSnapshot]_vars

(***************************************************************************)
(* Trees handed to SearchQueryBuilder                                      *)
(*                                                                         *)
(* The nodes are made by the factories of tree-node.ts or are the root     *)
(* literal, and are linked to their parent the way the builder links them. *)
(* Handles are the positions in qheap.                                     *)
(***************************************************************************)
\* largest number of nodes of a tree handed to the query builder
MaxNodes == 3

KeyStatus == <<"s", "t", "a", "t", "u", "s">>
KeyPriority == <<"p", "r", "i", "o", "r", "i", "t", "y">>
KeyLabels == <<"l", "a", "b", "e", "l", "s">>
Active == <<"a", "c", "t", "i", "v", "e">>

\* the tag paths given to createTagNode
QueryTagPaths == {<<>>, TagA_B}

\* the (key, value) pairs given to createPropertyGroupNode
QueryProperties ==
  { <<KeyStatus, StrValue(Active)>>,
    <<KeyStatus, Null>>,
    <<KeyStatus, Undefined>>,
    <<KeyStatus, StrValue(<<>>)>>,
    <<<<>>, StrValue(Active)>>,
    <<KeyPriority, NumValue(10)>>,
    <<KeyLabels, ListValue(<<StrValue(<<"x">>), Null, BoolValue(TRUE)>>)>> }

\* the handles a new node can be linked under: none for the first node,
\* else a node that is not a file
ParentChoices ==
  IF qheap = <<>> THEN {Unset}
  ELSE {<<p>> : p \in {i \in 1..Len(qheap) : qheap[i].type # "file"}}

\* parent.children.push(node); node.parent = parent
LinkNode(heap, node, parent) ==
  LET h == Len(heap) + 1
      heap1 == Append(heap, [node EXCEPT !.parent = parent])
  IN IF parent = Unset THEN heap1
     ELSE [heap1 EXCEPT ![parent[1]].children = Append(@, h)]

DepthUnder(parent) == IF parent = Unset THEN 0 ELSE qheap[parent[1]].depth + 1

AddRootNode ==
  /\ qheap = <<>>
  /\ qheap' = LinkNode(qheap, RootNode, Unset)
  /\ query' = NoQuery
  /\ UNCHANGED indexVars

AddTagNode(tagPath, parent) ==
  /\ Len(qheap) < MaxNodes
  /\ qheap' = LinkNode(qheap, createTagNode(tagPath, <<>>, DepthUnder(parent)), parent)
  /\ query' = NoQuery
  /\ UNCHANGED indexVars

AddPropertyGroupNode(propertyKey, propertyValue, parent) ==
  /\ Len(qheap) < MaxNodes
  /\ qheap' = LinkNode(qheap,
                createPropertyGroupNode(propertyKey, propertyValue, <<>>,
                                        DepthUnder(parent)), parent)
  /\ query' = NoQuery
  /\ UNCHANGED indexVars

AddFileNode(file, parent) ==
  /\ Len(qheap) < MaxNodes
  /\ qheap' = LinkNode(qheap, createFileNode(file, DepthUnder(parent)), parent)
  /\ query' = NoQuery
  /\ UNCHANGED indexVars

\* a call of SearchQueryBuilder.buildQuery(node)
BuildQuery(h) ==
  /\ query' = [status |-> "returned", node |-> h, result |-> buildQuery(qheap, h)]
  /\ qheap' = HeapAfterBuildQuery(qheap, h)
  /\ UNCHANGED indexVars

NextQuery ==
  \/ AddRootNode
  \/ \E tagPath \in QueryTagPaths, parent \in ParentChoices : AddTagNode(tagPath, parent)
  \/ \E kv \in QueryProperties, parent \in ParentChoices :
       AddPropertyGroupNode(kv[1], kv[2], parent)
  \/ \E parent \in ParentChoices : AddFileNode("D1", parent)
  \/ \E h \in 1..Len(qheap) : BuildQuery(h)

QuerySpec == Init /\ [][NextQuery]_vars

(***************************************************************************)
(* TreeToolbar: the calls of its public methods and the events of the      *)
(* elements it rendered                                                    *)
(***************************************************************************)
Called(op, arg, effect) ==
  /\ toolbar' = effect.toolbar
  /\ dom' = effect.dom
  /\ lastCall' = [op |-> op, arg |-> arg, renders |-> effect.renders,
                  callbacks |-> effect.callbacks]
  /\ UNCHANGED <<storeVars, snapshotVars, filterVars, settingsVars, built, queryVars>>

Rendered == dom.status = "rendered"

Render == Called("render", NoArg, renderInto(toolbar))

SetFileSortMode(mode) ==
  Called("setFileSortMode", StrArg(mode), setFileSortMode(toolbar, dom, mode))

SetFileVisibility(show) ==
  Called("setFileVisibility", BoolArg(show), setFileVisibility(toolbar, dom, show))

UpdateSavedViews(savedViews) ==
  Called("updateSavedViews", NoArg, updateSavedViews(toolbar, dom, savedViews))

SetCurrentViewName(viewName) ==
  Called("setCurrentViewName", StrArg(viewName),
         setCurrentViewName(toolbar, dom, viewName))

SetCurrentViewConfig(viewConfig) ==
  Called("setCurrentViewConfig", NoArg, setCurrentViewConfig(toolbar, dom, viewConfig))

SetFileCount(count) ==
  Called("setFileCount", NumArg(count), setFileCount(toolbar, dom, count))

SetFilterOverridesEnabled(enabled) ==
  Called("setFilterOverridesEnabled", BoolArg(enabled),
         setFilterOverridesEnabled(toolbar, dom, enabled))

\* the user chooses a view in the view switcher
ChooseView(value) ==
  /\ Rendered
  /\ dom.switcher # Unset
  /\ value \in Range(dom.switcher[1].options)
  /\ Called("chooseView", StrArg(value), viewSwitcherOnChange(toolbar, dom, value))

\* the user clicks the file visibility toggle
ClickToggle ==
  /\ Rendered
  /\ Called("clickToggle", NoArg, toggleOnClick(toolbar, dom))

\* the user chooses a sort mode in the sort dropdown
ChooseSort(value) ==
  /\ Rendered
  /\ Called("chooseSort", StrArg(value), sortOnChange(toolbar, dom, value))

ClickDepth(value) ==
  /\ Rendered
  /\ Called("clickDepth", NumArg(value), depthOnClick(toolbar, dom, value))

ClickButton(callback) ==
  /\ Rendered
  /\ Called("clickButton", StrArg(callback), buttonOnClick(toolbar, dom, callback))

NextToolbar ==
  \/ Render
  \/ \E mode \in FileSortModes : SetFileSortMode(mode)
  \/ \E show \in BOOLEAN : SetFileVisibility(show)
  \/ \E savedViews \in SavedViewLists : UpdateSavedViews(savedViews)
  \/ \E viewName \in ViewNames : SetCurrentViewName(viewName)
  \/ \E viewConfig \in ViewConfigs : SetCurrentViewConfig(viewConfig)
  \/ \E count \in 0..MaxFileCount : SetFileCount(count)
  \/ \E enabled \in BOOLEAN : SetFilterOverridesEnabled(enabled)
  \/ \E value \in ViewNames : ChooseView(value)
  \/ ClickToggle
  \/ \E value \in FileSortModes : ChooseSort(value)
  \/ \E value \in DepthOptions : ClickDepth(value)
  \/ \E callback \in {"onCollapseAll", "onExpandAll", "onRefreshTree"} :
       ClickButton(callback)

ToolbarSpec == Init /\ [][NextToolbar]_vars

(***************************************************************************)
(* Plugin settings: a settings object is loaded and migrated               *)
(***************************************************************************)
\* the caller obtains the settings object it will hand to migrateSettings
LoadSettings(loaded) ==
  /\ ~settings.loaded
  /\ settings' = loaded
  /\ migration' = NotMigrated
  /\ UNCHANGED <<storeVars, snapshotVars, filterVars, toolbarVars, built, queryVars>>

\* a call of migrateSettings(settings)
MigrateSettings ==
  /\ settings.loaded
  /\ settings' = migrateSettings(settings)
  /\ migration' = [status |-> "migrated", before |-> settings]
  /\ UNCHANGED <<storeVars, snapshotVars, filterVars, toolbarVars, built, queryVars>>

NextSettings ==
  \/ /\ ~settings.loaded
     /\ \E loaded \in SettingsObjects : LoadSettings(loaded)
  \/ MigrateSettings

SettingsSpec == Init /\ [][NextSettings]_vars

(***************************************************************************)
(* Vocabulary of the properties of a returned query                        *)
(***************************************************************************)
QueryReturned == query.status = "returned"

QueriedNode == qheap[query.node]

RECURSIVE PathFromRoot(_, _)
\* the handles from the outermost ancestor of h down to h
PathFromRoot(heap, h) ==
  IF heap[h].parent = Unset THEN <<h>>
  ELSE Append(PathFromRoot(heap, heap[h].parent[1]), h)

RECURSIVE FragmentsAlong(_, _)
\* the fragments the nodes of a path contribute, in the order of the path
FragmentsAlong(heap, path) ==
  IF path = <<>> THEN <<>>
  ELSE buildNodeFilter(heap[Head(path)]) \o FragmentsAlong(heap, Tail(path))

RECURSIVE SpaceSeparated(_)
\* the fragments with exactly one space between neighbours
SpaceSeparated(frags) ==
  IF frags = <<>> THEN <<>>
  ELSE IF Len(frags) = 1 THEN frags[1]
  ELSE SpaceSeparated(SubSeq(frags, 1, Len(frags) - 1)) \o <<" ">> \o frags[Len(frags)]

\* str ends with the fragment frag, as a whole fragment
EndsWithFragment(str, frag) ==
  /\ Len(str) >= Len(frag)
  /\ SubSeq(str, Len(str) - Len(frag) + 1, Len(str)) = frag
  /\ Len(str) > Len(frag) => str[Len(str) - Len(frag)] = " "

\* the node has a tag path / a property key that is set and not empty
HasTagPath(node) ==
  /\ node.metadata # Unset
  /\ node.metadata[1].tagPath # Unset
  /\ node.metadata[1].tagPath[1] # <<>>

HasPropertyKey(node) ==
  /\ node.metadata # Unset
  /\ node.metadata[1].propertyKey # Unset
  /\ node.metadata[1].propertyKey[1] # <<>>

HasPropertyValue(node) ==
  /\ node.metadata # Unset
  /\ node.metadata[1].propertyValue.t \notin {"null", "undefined"}

\* the nodes C5 says contribute a fragment
Contributes(node) ==
  \/ node.type = "tag" /\ HasTagPath(node)
  \/ node.type = "property-group" /\ HasPropertyKey(node) /\ HasPropertyValue(node)

\* the query of the parent of node h, the empty string without a parent
ParentQuery(heap, h) ==
  IF heap[h].parent = Unset THEN <<>> ELSE buildQuery(heap, heap[h].parent[1])

(***************************************************************************)
(* C3: buildQuery(node) is the fragments of the node and its ancestors in  *)
(* root-to-leaf order, joined by exactly one space.                        *)
(***************************************************************************)
C3_RootToLeafOrder ==
  QueryReturned =>
    query.result =
      SpaceSeparated(FragmentsAlong(qheap, PathFromRoot(qheap, query.node)))

\* a query over a chain of three contributing nodes of different fragments
C3_Witness ==
  /\ QueryReturned
  /\ LET path == PathFromRoot(qheap, query.node)
         frags == FragmentsAlong(qheap, path)
     IN /\ Len(path) = 3 /\ Len(frags) = 3
        /\ frags[1] # frags[2] /\ frags[2] # frags[3] /\ frags[1] # frags[3]
        /\ query.result = frags[1] \o <<" ">> \o frags[2] \o <<" ">> \o frags[3]

(***************************************************************************)
(* C4: the fragment of a tag node is tag:# followed by its full tag path,  *)
(* the fragment of a property-group node is [key:value] with its property  *)
(* key and the string form of its property value.                          *)
(***************************************************************************)
C4_FragmentFormat ==
  QueryReturned =>
    LET node == QueriedNode
    IN /\ (node.type = "tag" /\ HasTagPath(node)) =>
            EndsWithFragment(query.result,
              <<"t", "a", "g", ":", "#">> \o node.metadata[1].tagPath[1])
       /\ (node.type = "tag" /\ node.metadata = <<TagMeta(TagA_B)>>) =>
            EndsWithFragment(query.result,
              <<"t", "a", "g", ":", "#", "a", "/", "b">>)
       /\ (node.type = "property-group" /\ HasPropertyKey(node) /\ HasPropertyValue(node)) =>
            EndsWithFragment(query.result,
              <<"[">> \o node.metadata[1].propertyKey[1] \o <<":">>
                \o StringOf(node.metadata[1].propertyValue) \o <<"]">>)
       /\ (node.type = "property-group"
           /\ node.metadata = <<PropertyMeta(KeyStatus, StrValue(Active))>>) =>
            EndsWithFragment(query.result,
              <<"[", "s", "t", "a", "t", "u", "s", ":",
                "a", "c", "t", "i", "v", "e", "]">>)
       /\ (node.type = "property-group"
           /\ node.metadata = <<PropertyMeta(KeyPriority, NumValue(10))>>) =>
            EndsWithFragment(query.result,
              <<"[", "p", "r", "i", "o", "r", "i", "t", "y", ":", "1", "0", "]">>)

\* the query of the tag node a/b, named b, under the group status = active
C4_Witness ==
  /\ QueryReturned
  /\ QueriedNode.type = "tag" /\ QueriedNode.name = <<"b">>
  /\ QueriedNode.parent # Unset
  /\ qheap[QueriedNode.parent[1]].type = "property-group"
  /\ query.result =
       <<"[", "s", "t", "a", "t", "u", "s", ":", "a", "c", "t", "i", "v", "e", "]",
         " ", "t", "a", "g", ":", "#", "a", "/", "b">>

(***************************************************************************)
(* C5: a node adds a fragment to the query iff it is a tag node with a     *)
(* non-empty tagPath or a property-group node with a non-empty key and a   *)
(* value that is neither null nor undefined; otherwise (file nodes, the    *)
(* root) its query is the query of its parent.                             *)
(***************************************************************************)
C5_ContributesIff ==
  QueryReturned =>
    LET parentQuery == ParentQuery(qheap, query.node)
    IN /\ Contributes(QueriedNode) <=> query.result # parentQuery
       /\ Contributes(QueriedNode) =>
            /\ Len(query.result) > Len(parentQuery)
            /\ SubSeq(query.result, 1, Len(parentQuery)) = parentQuery
       /\ QueriedNode.type = "file" => query.result = parentQuery
       /\ QueriedNode.metadata = Unset => query.result = parentQuery

\* the query of a file leaf under a tag node under the root literal
C5_Witness ==
  /\ QueryReturned
  /\ QueriedNode.type = "file"
  /\ QueriedNode.parent # Unset
  /\ qheap[1] = [RootNode EXCEPT !.children = @ \o <<2>>]
  /\ query.result = <<"t", "a", "g", ":", "#", "a", "/", "b">>

(***************************************************************************)
(* C11: buildQuery called on a node that has no ancestors returns the      *)
(* empty string.                                                           *)
(***************************************************************************)
C11_NoAncestorsEmpty ==
  (QueryReturned /\ QueriedNode.parent = Unset) => query.result = <<>>

\* C11 as amended: buildQuery called on a node that has no ancestors returns
\* the node's own fragment, and the empty string exactly when the node
\* contributes none
C11_NoAncestorsOwnFragment ==
  (QueryReturned /\ QueriedNode.parent = Unset) =>
    LET node == QueriedNode
    IN /\ (node.type = "tag" /\ HasTagPath(node)) =>
            query.result = <<"t", "a", "g", ":", "#">> \o node.metadata[1].tagPath[1]
       /\ (node.type = "property-group" /\ HasPropertyKey(node) /\ HasPropertyValue(node)) =>
            query.result = <<"[">> \o node.metadata[1].propertyKey[1] \o <<":">>
                             \o StringOf(node.metadata[1].propertyValue) \o <<"]">>
       /\ (query.result = <<>>) <=> ~Contributes(node)

\* the query of the lone tag node a/b, as in the test "single tag node"
C11_Witness ==
  /\ QueryReturned
  /\ QueriedNode.parent = Unset
  /\ QueriedNode.type = "tag"
  /\ query.result = <<"t", "a", "g", ":", "#", "a", "/", "b">>

(***************************************************************************)
(* Vocabulary of the properties of a returned tree                         *)
(***************************************************************************)
Returned == built.status = "returned"

RECURSIVE Subtree(_, _)
\* the handles reachable from h along children
Subtree(heap, h) ==
  {h} \cup UNION {Subtree(heap, heap[h].children[i]) : i \in 1..Len(heap[h].children)}

\* the nodes of the returned tree
TreeNodes == Subtree(built.heap, built.root)

ChildrenOf(h) == Range(built.heap[h].children)

IsFileLeafOf(c, f) == built.heap[c].type = "file" /\ built.heap[c].files = <<f>>

\* the nodes of the returned tree that have document f as a direct file leaf
LeafParents(f) ==
  {h \in TreeNodes : \E c \in ChildrenOf(h) : IsFileLeafOf(c, f)}

RECURSIVE SumCounts(_, _)
SumCounts(heap, hs) ==
  IF hs = <<>> THEN 0 ELSE heap[Head(hs)].fileCount + SumCounts(heap, Tail(hs))

\* the number of file nodes in the subtree of h
FileLeavesBeneath(h) ==
  Cardinality({c \in Subtree(built.heap, h) : built.heap[c].type = "file"})

\* the tags the build was given
BuildCandidates == CandidateTags(tagIndex, built.rootTag)

\* the candidate tags document f carries
CarriedCandidates(f) ==
  IF f \in DOMAIN fileTags THEN fileTags[f] \cap BuildCandidates ELSE {}

\* t is at least as deep as u: by segment count, then by string length
AtLeastAsDeep(t, u) ==
  \/ Len(Split(t)) > Len(Split(u))
  \/ Len(Split(t)) = Len(Split(u)) /\ Len(t) >= Len(u)

DeepestOf(S) == {t \in S : \A u \in S : AtLeastAsDeep(t, u)}

\* the node created for tag t has document f as a direct file leaf
PlacedUnder(t, f) ==
  /\ TagH(t) \in DOMAIN built.heap
  /\ \E c \in ChildrenOf(TagH(t)) : IsFileLeafOf(c, f)

(***************************************************************************)
(* C1: in every returned tree each file node has fileCount 1 and each      *)
(* other node's fileCount is the sum of its children's fileCount, which is *)
(* the number of file nodes beneath it.                                    *)
(***************************************************************************)
C1_CountIsSumOfChildren ==
  Returned =>
    \A h \in TreeNodes :
      LET node == built.heap[h]
      IN IF node.type = "file" THEN node.fileCount = 1
         ELSE /\ node.fileCount = SumCounts(built.heap, node.children)
              /\ node.fileCount = FileLeavesBeneath(h)

\* a tree whose root counts two file leaves that sit two levels apart
C1_Witness ==
  /\ Returned
  /\ built.heap[built.root].fileCount >= 2
  /\ \E h \in TreeNodes :
       /\ built.heap[h].depth = 2 /\ built.heap[h].type = "tag"
       /\ built.heap[h].fileCount = 1
  /\ \E h \in TreeNodes :
       /\ built.heap[h].depth = 1 /\ built.heap[h].fileCount = 2

(***************************************************************************)
(* C2: a document carrying a, a/b and a/b/c is, in a build scoped to root  *)
(* tag a, never a file leaf directly under a or a/b; when these are all    *)
(* its tags its only file leaf is under a/b/c.                             *)
(***************************************************************************)
C2_OnlyUnderMostSpecific ==
  (Returned /\ built.rootTag = TagA) =>
    \A f \in DOMAIN fileTags :
      {TagA, TagA_B, TagA_B_C} \subseteq fileTags[f] =>
        /\ TagH(TagA) \notin LeafParents(f)
        /\ TagH(TagA_B) \notin LeafParents(f)
        /\ ~PlacedUnder(TagA, f) /\ ~PlacedUnder(TagA_B, f)
        /\ fileTags[f] = {TagA, TagA_B, TagA_B_C} =>
             LeafParents(f) = {TagH(TagA_B_C)}

C2_Witness ==
  /\ Returned /\ built.rootTag = TagA
  /\ \E f \in DOMAIN fileTags :
       /\ fileTags[f] = {TagA, TagA_B, TagA_B_C}
       /\ LeafParents(f) = {TagH(TagA_B_C)}

(***************************************************************************)
(* C6: with D1 tagged proj/web and D2 tagged proj/api and nothing else     *)
(* indexed, a build scoped to root tag proj returns a root whose children  *)
(* are the nodes web (count 1, only leaf D1) and api (count 1, only leaf   *)
(* D2).                                                                    *)
(***************************************************************************)
IsGroupWithOnlyLeaf(h, tag, f) ==
  /\ built.heap[h].type = "tag"
  /\ built.heap[h].metadata = <<TagMeta(tag)>>
  /\ built.heap[h].fileCount = 1
  /\ Len(built.heap[h].children) = 1
  /\ IsFileLeafOf(built.heap[h].children[1], f)

C6_ProjScenario ==
  ( /\ Returned /\ built.rootTag = TagProj
    /\ DOMAIN fileTags = {"D1", "D2"}
    /\ fileTags["D1"] = {TagProjWeb}
    /\ fileTags["D2"] = {TagProjApi} ) =>
    /\ Len(built.heap[built.root].children) = 2
    /\ \E h \in ChildrenOf(built.root) : IsGroupWithOnlyLeaf(h, TagProjWeb, "D1")
    /\ \E h \in ChildrenOf(built.root) : IsGroupWithOnlyLeaf(h, TagProjApi, "D2")

(***************************************************************************)
(* C7: in every returned tree each document that carries a candidate tag   *)
(* is a file leaf under exactly one node, the node of its most specific    *)
(* matching tag.                                                           *)
(***************************************************************************)
C7_ExactlyOneLeaf ==
  Returned =>
    \A f \in DOMAIN fileTags :
      CarriedCandidates(f) # {} =>
        \E t \in DeepestOf(CarriedCandidates(f)) : LeafParents(f) = {TagH(t)}

(***************************************************************************)
(* C8: every document that carries a candidate tag of the build is placed  *)
(* as a file leaf under the deepest candidate tag it carries.              *)
(***************************************************************************)
C8_PlacedUnderDeepest ==
  Returned =>
    \A f \in DOMAIN fileTags :
      CarriedCandidates(f) # {} =>
        \E t \in DeepestOf(CarriedCandidates(f)) : PlacedUnder(t, f)

(***************************************************************************)
(* C9: in the children of every node of a returned tree the tag nodes come *)
(* before the file nodes and, within each kind, the names ascend.          *)
(***************************************************************************)
C9_ChildrenSorted ==
  Returned =>
    \A h \in TreeNodes :
      LET ch == built.heap[h].children
      IN \A i, j \in 1..Len(ch) :
           i < j =>
             LET a == built.heap[ch[i]]
                 b == built.heap[ch[j]]
             IN /\ ~(a.type = "file" /\ b.type # "file")
                /\ (a.type = "file") = (b.type = "file") =>
                     localeCompare(a.name, b.name) <= 0

\* a tree with a node holding two tag children and a node holding two files
C9_Witness ==
  /\ Returned
  /\ \E h \in TreeNodes :
       Cardinality({c \in ChildrenOf(h) : built.heap[c].type = "tag"}) >= 2
  /\ \E h \in TreeNodes :
       Cardinality({c \in ChildrenOf(h) : built.heap[c].type = "file"}) >= 2

(***************************************************************************)
(* C10: when no indexed tag matches the root tag (or none is indexed) the  *)
(* call returns a root with no children and fileCount 0.                   *)
(***************************************************************************)
C10_EmptyRoot ==
  (built.status # "none" /\ BuildCandidates = {}) =>
    /\ built.status = "returned"
    /\ built.heap[built.root].children = <<>>
    /\ built.heap[built.root].fileCount = 0
    /\ built.heap[built.root].parent = Unset

\* a build whose root tag matches none of the tags the index holds
C10_Witness ==
  /\ Returned /\ built.rootTag = TagNone
  /\ DOMAIN tagIndex # {}
  /\ built.heap[built.root].children = <<>>

(***************************************************************************)
(* C12: after any sequence of upsertDocument and removeDocument calls the  *)
(* reverse index equals the index rebuilt from scratch from the final      *)
(* tags and properties of the documents; no document is left in the entry  *)
(* of a tag or of a (key, value) pair it no longer has.                    *)
(***************************************************************************)
\* the index built in one pass from what each document has
IndexFromScratch(entriesOf) ==
  [e \in UNION {entriesOf[f] : f \in DOMAIN entriesOf} |->
     {f \in DOMAIN entriesOf : e \in entriesOf[f]}]

C12_IndexEqualsRebuild ==
  /\ tagIndex = IndexFromScratch(fileTags)
  /\ propertyIndex =
       IndexFromScratch([f \in DOMAIN fileProps |-> PropertyEntries(fileProps[f])])
  /\ \A t \in DOMAIN tagIndex : \A f \in tagIndex[t] :
       f \in DOMAIN fileTags /\ t \in fileTags[f]
  /\ \A key \in {e[1] : e \in DOMAIN propertyIndex} :
       documentsWithProperty(propertyIndex, key) =
         {f \in DOMAIN fileProps : key \in DOMAIN fileProps[f]}

\* both documents indexed, one with a list property that is exploded, and a
\* tag that only the other document still carries
C12_Witness ==
  /\ DOMAIN fileTags = {"D1", "D2"}
  /\ fileTags["D1"] = {TagA_B} /\ fileTags["D2"] = {TagA}
  /\ tagIndex[TagA] = {"D2"}
  /\ documentsWithPropertyValue(propertyIndex, <<"l", "a", "b", "e", "l", "s">>,
                                StrValue(Done)) = {"D1"}
  /\ documentsWithPropertyValue(propertyIndex, <<"s", "t", "a", "t", "u", "s">>,
                                StrValue(Done)) = {"D2"}

(***************************************************************************)
(* C13: while the writer applies a mutation and readers look the index up, *)
(* every lookup sees the index wholly before or wholly after the mutation: *)
(* never a document removed from some of its entries and not from others.  *)
(***************************************************************************)
PropertyEntriesOfStore(store) ==
  [f \in DOMAIN store |-> PropertyEntries(store[f])]

\* the store once the mutation in progress is applied
TagsAfterMutation ==
  IF writer.pc = "idle" THEN fileTags
  ELSE IF writer.isRemove THEN [f \in DOMAIN fileTags \ {writer.id} |-> fileTags[f]]
  ELSE (writer.id :> writer.tags) @@ fileTags

PropsAfterMutation ==
  IF writer.pc = "idle" THEN fileProps
  ELSE IF writer.isRemove THEN [f \in DOMAIN fileProps \ {writer.id} |-> fileProps[f]]
  ELSE (writer.id :> writer.properties) @@ fileProps

C13_NoTornRead ==
  observed.status = "returned" =>
    \/ /\ observed.tagIndex = IndexFromScratch(fileTags)
       /\ observed.propertyIndex = IndexFromScratch(PropertyEntriesOfStore(fileProps))
    \/ /\ observed.tagIndex = IndexFromScratch(TagsAfterMutation)
       /\ observed.propertyIndex =
            IndexFromScratch(PropertyEntriesOfStore(PropsAfterMutation))

\* a lookup while the writer has removed the document from one of its
\* entries and not yet from another
C13_Witness ==
  /\ observed.status = "returned"
  /\ writer.pc = "mutating"
  /\ writer.removeTags # {}
  /\ writer.work.tagIndex # tagIndex
  /\ \E t \in DOMAIN tagIndex :
       writer.id \in tagIndex[t] /\ t \notin EntriesOf(writer.work.tagIndex, writer.id)

(***************************************************************************)
(* C14: with no explicit expression select returns exactly the documents   *)
(* that match every enabled predicate, the intersection of their match     *)
(* sets, and a disabled predicate has no influence on the result.          *)
(***************************************************************************)
MatchSet(p) == {d \in Files : matches(p, fileTags, fileProps, d)}

EnabledPredicates == FilterSeq(predicates, {p \in Range(predicates) : p.enabled})

C14_ImplicitAnd ==
  selected.status = "returned" =>
    /\ selected.docs =
         {d \in Files : \A i \in 1..Len(predicates) :
                          predicates[i].enabled => d \in MatchSet(predicates[i])}
    /\ selected.docs = select(EnabledPredicates, fileTags, fileProps, Files)

\* a prefix tag-match and a property-exists predicate are enabled, a third
\* predicate is disabled; one document matches both enabled predicates and
\* not the disabled one, the other matches only one of the enabled ones
C14_Witness ==
  /\ selected.status = "returned"
  /\ \E i, j, k \in 1..Len(predicates) :
       /\ predicates[i] = TagMatch("prefix", TagA, TRUE)
       /\ predicates[j] = PropertyExists(KeyOfStatus, TRUE)
       /\ predicates[k] = TagMatch("exact", TagAB, FALSE)
       /\ \E d \in selected.docs : d \notin MatchSet(predicates[k])
       /\ \E d \in Files \ selected.docs :
            d \in MatchSet(predicates[i]) \/ d \in MatchSet(predicates[j])

C16_EveryTagAttached ==
  Returned =>
    /\ \A t \in BuildCandidates : TagH(t) \in TreeNodes
    /\ DOMAIN built.heap \subseteq TreeNodes

(***************************************************************************)
(* C17: in every returned tree the fileCount of each group node is the     *)
(* number of distinct documents among its file-leaf descendants.           *)
(***************************************************************************)
DocumentsBeneath(h) ==
  {f \in Files : \E c \in Subtree(built.heap, h) : IsFileLeafOf(c, f)}

C17_CountsDistinctDocuments ==
  Returned =>
    \A h \in TreeNodes :
      built.heap[h].type = "tag" =>
        built.heap[h].fileCount = Cardinality(DocumentsBeneath(h))

(***************************************************************************)
(* C18: in every returned tree the parent references agree with the        *)
(* children lists: each child of a reachable node has that node as parent, *)
(* the root has no parent, and following parent from a reachable node      *)
(* reaches the root.                                                       *)
(***************************************************************************)
RECURSIVE ReachesRoot(_, _, _)
\* following parent from h reaches root within fuel steps
ReachesRoot(heap, h, fuel) ==
  \/ h = built.root
  \/ /\ fuel > 0
     /\ heap[h].parent # Unset
     /\ ReachesRoot(heap, heap[h].parent[1], fuel - 1)

C18_ParentsAgreeWithChildren ==
  Returned =>
    /\ built.heap[built.root].parent = Unset
    /\ \A n \in TreeNodes : \A c \in ChildrenOf(n) : built.heap[c].parent = <<n>>
    /\ \A n \in TreeNodes : ReachesRoot(built.heap, n, Cardinality(TreeNodes))

\* a tree with a file leaf under a tag node under a tag node under the root
C18_Witness ==
  /\ Returned
  /\ \E c \in TreeNodes :
       /\ built.heap[c].type = "file"
       /\ built.heap[c].parent = <<TagH(TagA_B)>>
       /\ built.heap[TagH(TagA_B)].parent = <<TagH(TagA)>>
       /\ built.heap[TagH(TagA)].parent = <<built.root>>

(***************************************************************************)
(* C19: in every returned tree each node's depth is its distance from the  *)
(* root: the root has depth 0 and every child its parent's depth plus one. *)
(***************************************************************************)
C19_DepthIsDistance ==
  Returned =>
    /\ built.heap[built.root].depth = 0
    /\ \A n \in TreeNodes : \A c \in ChildrenOf(n) :
         built.heap[c].depth = built.heap[n].depth + 1

(***************************************************************************)
(* C20: no two distinct nodes of a returned tree have the same id.         *)
(***************************************************************************)
C20_IdsUnique ==
  Returned =>
    \A g, h \in TreeNodes : g # h => built.heap[g].id # built.heap[h].id

(***************************************************************************)
(* C21: in every returned tree the files list of each tag node holds       *)
(* exactly the documents of its direct file-leaf children.                 *)
(***************************************************************************)
DirectDocuments(h) == {f \in Files : \E c \in ChildrenOf(h) : IsFileLeafOf(c, f)}

C21_FilesAreDirectLeaves ==
  Returned =>
    \A h \in TreeNodes :
      built.heap[h].type = "tag" => Range(built.heap[h].files) = DirectDocuments(h)

(***************************************************************************)
(* C22: when the current view has filters and no explicit expression, the  *)
(* default expression of the filter explanation names exactly the labels   *)
(* of the enabled filters, in stored order, the filters the list beneath   *)
(* it shows; a filter with enabled false appears in neither.               *)
(***************************************************************************)
CurrentFilters == toolbar.currentViewConfig[1].filters[1]

EnabledFilters ==
  FilterSeq(CurrentFilters.filters,
            {lf \in Range(CurrentFilters.filters) : lf.enabled # <<FALSE>>})

NoExplicitExpression ==
  CurrentFilters.expression = Unset \/ Trim(CurrentFilters.expression[1]) = <<>>

C22_DefaultNamesEnabled ==
  (Rendered /\ HasFilters(toolbar) /\ NoExplicitExpression) =>
    /\ dom.explanation # Unset
    /\ dom.explanation[1].expression =
         ExpressionPrefix \o Join(MapLabels(EnabledFilters), <<" ", "&", " ">>)
         \o DefaultSuffix
    /\ Len(dom.explanation[1].list) = Len(EnabledFilters)
    /\ \A i \in 1..Len(EnabledFilters) :
         StartsWith(dom.explanation[1].list[i], EnabledFilters[i].label \o <<":", " ">>)

(***************************************************************************)
(* C26: a call of setFileSortMode, setFileVisibility, setCurrentViewName,  *)
(* setFileCount or setFilterOverridesEnabled with the value the toolbar    *)
(* already holds changes no field and renders nothing; with another value  *)
(* the field is updated and the toolbar is rendered exactly once if and    *)
(* only if render has been called before; no setter invokes a callback.    *)
(***************************************************************************)
Setters ==
  {"setFileSortMode", "setFileVisibility", "setCurrentViewName", "setFileCount",
   "setFilterOverridesEnabled"}

\* the call held the value the toolbar tb already had
SameValue(tb, call) ==
  CASE call.op = "setFileSortMode" -> tb.currentFileSortMode = call.arg.s
    [] call.op = "setFileVisibility" -> tb.showFiles = call.arg.b
    [] call.op = "setCurrentViewName" -> tb.currentViewName = call.arg.s
    [] call.op = "setFileCount" -> tb.fileCount = call.arg.n
    [] call.op = "setFilterOverridesEnabled" -> tb.filterOverridesEnabled = call.arg.b

\* tb with the field of the setter set to the argument of the call
WithValue(tb, call) ==
  CASE call.op = "setFileSortMode" -> [tb EXCEPT !.currentFileSortMode = call.arg.s]
    [] call.op = "setFileVisibility" -> [tb EXCEPT !.showFiles = call.arg.b]
    [] call.op = "setCurrentViewName" -> [tb EXCEPT !.currentViewName = call.arg.s]
    [] call.op = "setFileCount" -> [tb EXCEPT !.fileCount = call.arg.n]
    [] call.op = "setFilterOverridesEnabled" ->
         [tb EXCEPT !.filterOverridesEnabled = call.arg.b]

C26_SetterStep ==
  lastCall'.op \in Setters =>
    /\ lastCall'.callbacks = <<>>
    /\ IF SameValue(toolbar, lastCall')
       THEN toolbar' = toolbar /\ dom' = dom /\ lastCall'.renders = 0
       ELSE /\ toolbar' = WithValue(toolbar, lastCall')
            /\ lastCall'.renders = (IF toolbar.container THEN 1 ELSE 0)
            /\ dom' = (IF toolbar.container THEN render(toolbar') ELSE dom)

C26_SettersCompareFirst == [][C26_SetterStep]_vars

\* setFileCount with another count on a rendered toolbar
C26_Witness ==
  /\ lastCall.op = "setFileCount"
  /\ lastCall.renders = 1
  /\ toolbar.fileCount > 0
  /\ Rendered

(***************************************************************************)
(* C27: choosing a view in the view switcher only calls onViewChange with  *)
(* the chosen name; the current view name, and the header that shows it,   *)
(* changes only in setCurrentViewName, which sets it to its argument.      *)
(***************************************************************************)
C27_Step ==
  /\ lastCall'.op = "chooseView" =>
       /\ toolbar' = toolbar
       /\ dom'.viewName = dom.viewName
       /\ lastCall'.callbacks = <<Callback("onViewChange", lastCall'.arg)>>
  /\ lastCall'.op = "setCurrentViewName" =>
       toolbar'.currentViewName = lastCall'.arg.s
  /\ toolbar'.currentViewName # toolbar.currentViewName =>
       lastCall'.op = "setCurrentViewName"
  /\ Rendered' => dom'.viewName = toolbar'.currentViewName

C27_ViewNameOnlyBySetter == [][C27_Step]_vars

\* the user chose a view other than the current one
C27_Witness ==
  /\ lastCall.op = "chooseView"
  /\ lastCall.arg.s # toolbar.currentViewName
  /\ dom.switcher[1].value = lastCall.arg.s
  /\ dom.viewName = toolbar.currentViewName

(***************************************************************************)
(* C28: on a rendered toolbar the aria-checked attribute and the active    *)
(* state of the file visibility toggle equal showFiles; a click flips      *)
(* showFiles and calls onToggleFiles exactly once, and setFileVisibility   *)
(* never calls onToggleFiles.                                              *)
(***************************************************************************)
ToggleInSync ==
  Rendered =>
    /\ dom.toggleAriaChecked = (IF toolbar.showFiles THEN "true" ELSE "false")
    /\ dom.toggleActive = toolbar.showFiles

C28_Step ==
  /\ ToggleInSync'
  /\ lastCall'.op = "clickToggle" =>
       /\ toolbar'.showFiles = ~toolbar.showFiles
       /\ lastCall'.callbacks = <<Callback("onToggleFiles", NoArg)>>
  /\ lastCall'.op = "setFileVisibility" =>
       \A i \in 1..Len(lastCall'.callbacks) :
         lastCall'.callbacks[i].name # "onToggleFiles"

C28_ToggleFollowsShowFiles == [][C28_Step]_vars

\* a click has hidden the files
C28_Witness ==
  /\ lastCall.op = "clickToggle"
  /\ ~toolbar.showFiles
  /\ dom.toggleAriaChecked = "false"

(***************************************************************************)
(* C23: migrateSettings is idempotent: applying it twice leaves the saved  *)
(* views and the view states exactly as applying it once.                  *)
(***************************************************************************)
Migrated == migration.status = "migrated"

C23_MigrateIdempotent ==
  Migrated =>
    /\ migrateSettings(settings).savedViews = settings.savedViews
    /\ migrateSettings(settings).viewStates = settings.viewStates

\* settings migrated from an object with the old property in a saved view
\* and in a view state
C23_Witness ==
  /\ Migrated
  /\ \E i \in 1..Len(migration.before.savedViews) :
       migration.before.savedViews[i].sortMode.has
  /\ \E k \in DOMAIN migration.before.viewStates :
       migration.before.viewStates[k].sortMode.has

(***************************************************************************)
(* C24: after migrateSettings no saved view and no view state has a        *)
(* sortMode property, every saved view has a defaultNodeSortMode and a     *)
(* defaultFileSortMode set, and every view state has a levelSortOverrides  *)
(* object.                                                                 *)
(***************************************************************************)
C24_NewSchemaOnly ==
  Migrated =>
    /\ \A i \in 1..Len(settings.savedViews) :
         /\ ~settings.savedViews[i].sortMode.has
         /\ Truthy(settings.savedViews[i].defaultNodeSortMode)
         /\ Truthy(settings.savedViews[i].defaultFileSortMode)
    /\ \A k \in DOMAIN settings.viewStates :
         /\ ~settings.viewStates[k].sortMode.has
         /\ settings.viewStates[k].levelSortOverrides \in {Present("{}"), Present("{0}")}

\* settings migrated from a view without any sort property and a view state
\* with the old property and no overrides
C24_Witness ==
  /\ Migrated
  /\ \E i \in 1..Len(migration.before.savedViews) :
       /\ ~migration.before.savedViews[i].sortMode.has
       /\ ~migration.before.savedViews[i].defaultNodeSortMode.has
       /\ ~migration.before.savedViews[i].defaultFileSortMode.has
  /\ \E k \in DOMAIN migration.before.viewStates :
       /\ migration.before.viewStates[k].sortMode.has
       /\ ~migration.before.viewStates[k].levelSortOverrides.has

(***************************************************************************)
(* C25: migrateSettings never overwrites a value already in the new        *)
(* schema: existing fields are kept, the old sortMode is copied only into  *)
(* a field that is missing, alpha-asc is used only when both the field and *)
(* sortMode are missing; the number of saved views, their names and        *)
(* defaultViewName are unchanged.                                          *)
(***************************************************************************)
SameViewsAndNames ==
  /\ Len(settings.savedViews) = Len(migration.before.savedViews)
  /\ \A i \in 1..Len(settings.savedViews) :
       settings.savedViews[i].name = migration.before.savedViews[i].name
  /\ settings.defaultViewName = migration.before.defaultViewName
  /\ DOMAIN settings.viewStates = DOMAIN migration.before.viewStates

\* field went from b to a beside the old property sortMode; exists(p) says
\* when a property counts as already there
FieldKept(b, a, sortMode, exists(_)) ==
  /\ exists(b) => a = b
  /\ a # b /\ a # Present("alpha-asc") => exists(sortMode) /\ a = Present(sortMode.v)
  /\ a # b /\ a = Present("alpha-asc") =>
       \/ ~exists(sortMode)
       \/ sortMode = Present("alpha-asc")

HasProperty(property) == property.has

====
